---- MODULE Spec2Model ----
(***************************************************************************)
(* A model of the frequency-plan converters (src/bin/i2c.py, the ICS-217A  *)
(* to CHIRP converter, src/bin/c2rt.py, the CHIRP to RT Systems converter, *)
(* and src/bin/website_table_gen.py, the CHIRP to website table converter). *)
(*                                                                         *)
(* Python values are modelled as records (PyStr, PyFloat, PyNone): a       *)
(* string is the sequence of its characters, a float is the integer        *)
(* number of millionths it denotes (147.12 is 147120000), which is exact   *)
(* for every decimal literal of at most six fractional digits.  The        *)
(* conversions float(str), str(float) and the fixed-point format           *)
(* f"{x:.5f}" are computed on the characters.                              *)
(***************************************************************************)
EXTENDS Integers, Sequences, FiniteSets, TLC

VARIABLES
    g_show_warnings,       \* i2c.py global, set by -w
    g_default_ctcss_tone,  \* i2c.py global, set by -t
    stderr,                \* the warnings written by warning(), oldest first
    call,                  \* the function called last ("" before any call)
    tone_str,              \* the argument of is_ctcss_tone/is_dcs_tone/parse_tone
    tx_tone_str,           \* the arguments of parse_tones
    rx_tone_str,
    ret,                   \* what the call returned
    chirp_row,             \* c2rt.py: the CHIRP row chirp2rt is converting
    rt_row,                \* c2rt.py: the RT Systems row built from it so far
    raised,                \* the exception that ended the call ("" when it returned)
    arg_max_size,          \* c2rt.py: the max_size given to truncate_comments
    input_file,            \* the lines of the input file (c2rt.py: header first)
    raw_chirp_content,     \* c2rt.py: what import_CHIRP returned
    RT_content,            \* c2rt.py: what chirp2rt returned
    output_file,           \* the lines written to the output file
    raw_input_lines,       \* i2c.py: the lines given to ics_parse
    script,                \* the script whose process_options runs
    opts,                  \* the (option, value) pairs getopt returned
    handled,               \* how many of them the loop has handled
    g_skip_rows,           \* global of both scripts, set by -f
    g_verbose,             \* global of both scripts, set by -v
    g_print_help_and_exit, \* website_table_gen.py global
    pc,                    \* the statement of __main__ that runs next
    args,                  \* the file names getopt left on the command line
    use_control_channel,   \* i2c.py: what process_options returned
    version_file,          \* i2c.py: the lines of VERSION_TOKEN_FILE
    g_control_channel,     \* i2c.py global, set by load_version_channel_name
    cooked,                \* i2c.py: what ics_parse returned
    raw_rows,              \* website_table_gen.py: what read_raw_input returned
    cooked_rows,           \* website_table_gen.py: what process_rows returned
    opened,                \* the files opened so far, as <<mode, name>>
    stdout,                \* the lines printed
    exit_code              \* <<>> while the script runs, then <<its exit status>>

convertVars == <<arg_max_size, input_file, raw_chirp_content, RT_content, output_file>>
optionVars ==
    <<script, opts, handled, g_skip_rows, g_verbose, g_print_help_and_exit>>
mainVars ==
    <<pc, args, use_control_channel, version_file, g_control_channel, cooked,
      raw_rows, cooked_rows, opened, stdout, exit_code>>

vars == <<g_show_warnings, g_default_ctcss_tone, stderr, call, tone_str,
          tx_tone_str, rx_tone_str, ret, chirp_row, rt_row, raised,
          convertVars, raw_input_lines, optionVars, mainVars>>

-----------------------------------------------------------------------------
(* Bounds of the model. *)

\* Arbitrary tokens: every string over Alphabet of at most MaxLen characters.
MaxLen == 2
\* Whitespace added before and after a token: 0..MaxPad blanks on each side.
MaxPad == 1
\* Decimal tokens: the text of every tone value 0.0, 0.1, ... MaxTenths/10.
MaxTenths == 2600
\* CHIRP rows: receive frequencies 144 MHz + k * 12.5 kHz, k in 0..MaxChannel.
MaxChannel == 8
\* CHIRP rows: offsets k * 124 kHz and k * 124 kHz + 500 Hz, k in
\* 0..MaxOffsetSteps.
MaxOffsetSteps == 41
\* Comments: one of every length 0..MaxCommentLen.
MaxCommentLen == 64
\* truncate_comments: every max_size from SizeMargin below 0 to SizeMargin
\* above 60.
SizeMargin == 3
\* CHIRP files: at most MaxRows rows after the header, at Locations
\* 1..MaxLocation.
MaxRows == 3
MaxLocation == 3
\* ICS-217A files: at most MaxLines lines.
MaxLines == 3
\* Command lines: at most MaxOpts options.
MaxOpts == 3
\* The file names on a command line, and the options before them, of a run
\* of a whole script, and the lines of its input file.
MaxArgs == 3
MaxMainOpts == 2
MaxMainLines == 2
\* Token files: at most MaxTokenLines lines before the last.
MaxTokenLines == 3

-----------------------------------------------------------------------------
(* Python values and conversions. *)

Scale == 1000 * 1000

PyNone == [kind |-> "None", chars |-> <<>>, micro |-> 0]
PyStr(s) == [kind |-> "str", chars |-> s, micro |-> 0]
PyFloat(m) == [kind |-> "float", chars |-> <<>>, micro |-> m]

\* The float written d.t in the source (67.0 is F(67, 0)), in millionths.
F(d, t) == d * Scale + t * (Scale \div 10)

DigitChars == <<"0", "1", "2", "3", "4", "5", "6", "7", "8", "9">>
Digits == {DigitChars[i] : i \in 1..10}
DigitVal(c) == (CHOOSE i \in 1..10 : DigitChars[i] = c) - 1
Whitespace == {" ", "\n"}

SeqMin(S) == CHOOSE x \in S : \A y \in S : x <= y
SeqMax(S) == CHOOSE x \in S : \A y \in S : y <= x

\* abs(x).
Abs(n) == IF n < 0 THEN 0 - n ELSE n

\* str.strip(): the string without its leading and trailing whitespace.
strip(s) ==
    LET keep == {i \in 1..Len(s) : s[i] \notin Whitespace}
    IN  IF keep = {} THEN <<>> ELSE SubSeq(s, SeqMin(keep), SeqMax(keep))

\* ",".join(columns), for at least one column.
RECURSIVE Join(_)
Join(columns) ==
    IF Len(columns) = 1 THEN columns[1]
    ELSE columns[1] \o <<",">> \o Join(Tail(columns))

RECURSIVE DigitsToNat(_)
DigitsToNat(ds) ==
    IF ds = <<>> THEN 0
    ELSE DigitsToNat(SubSeq(ds, 1, Len(ds) - 1)) * 10 + DigitVal(ds[Len(ds)])

RECURSIVE NatToDigits(_)
NatToDigits(n) ==
    IF n < 10 THEN <<DigitChars[n + 1]>>
    ELSE NatToDigits(n \div 10) \o <<DigitChars[(n % 10) + 1]>>

RECURSIVE Pow10(_)
Pow10(k) == IF k = 0 THEN 1 ELSE 10 * Pow10(k - 1)

\* n in exactly k digits, zero-padded on the left.
ZeroPad(n, k) ==
    LET d == NatToDigits(n)
    IN  [i \in 1..(k - Len(d)) |-> "0"] \o d

RECURSIVE StripTrailingZeros(_)
StripTrailingZeros(ds) ==
    IF Len(ds) > 1 /\ ds[Len(ds)] = "0"
    THEN StripTrailingZeros(SubSeq(ds, 1, Len(ds) - 1))
    ELSE ds

\* The decimal literals float() accepts here: [-]digits[.digits] or
\* [-].digits, surrounded by optional whitespace, at most 6 fractional digits.
IsDecimal(s) ==
    LET t == strip(s)
        b == IF t # <<>> /\ t[1] = "-" THEN Tail(t) ELSE t
        dots == {i \in 1..Len(b) : b[i] = "."}
    IN  /\ Cardinality(dots) <= 1
        /\ \A i \in 1..Len(b) : b[i] \in Digits \cup {"."}
        /\ \E i \in 1..Len(b) : b[i] \in Digits
        /\ \A d \in dots : Len(b) - d <= 6

\* float(s) of a decimal literal, in millionths.
float(s) ==
    LET t == strip(s)
        neg == t[1] = "-"
        b == IF neg THEN Tail(t) ELSE t
        dots == {i \in 1..Len(b) : b[i] = "."}
        dot == IF dots = {} THEN Len(b) + 1 ELSE CHOOSE d \in dots : TRUE
        ip == SubSeq(b, 1, dot - 1)
        fp == SubSeq(b, dot + 1, Len(b))
        m == DigitsToNat(ip) * Scale + DigitsToNat(fp) * Pow10(6 - Len(fp))
    IN  IF neg THEN 0 - m ELSE m

\* str(x) of a float: the shortest decimal with at least one fractional digit.
str(m) ==
    LET a == IF m < 0 THEN 0 - m ELSE m
        body == NatToDigits(a \div Scale) \o <<".">>
                    \o StripTrailingZeros(ZeroPad(a % Scale, 6))
    IN  IF m < 0 THEN <<"-">> \o body ELSE body

\* f"{x:.<places>f}" of a float, places <= 6 (a value exactly half way between
\* two results is rounded away from zero).
FormatFixed(m, places) ==
    LET q == Pow10(6 - places)
        a == IF m < 0 THEN 0 - m ELSE m
        r == (a + (q \div 2)) \div q
        body == NatToDigits(r \div Pow10(places)) \o <<".">>
                    \o ZeroPad(r % Pow10(places), places)
    IN  IF m < 0 /\ r # 0 THEN <<"-">> \o body ELSE body

-----------------------------------------------------------------------------
(* i2c.py: constants. *)

\* The three-character string 'abc' of a table of codes ('023' is C(0,2,3)).
C(a, b, c) == <<DigitChars[a + 1], DigitChars[b + 1], DigitChars[c + 1]>>

STANDARD_CTCSS_TONES == {
    F(67, 0), F(69, 3), F(71, 9), F(74, 4), F(77, 0),
    F(79, 7), F(82, 5), F(85, 4), F(88, 5), F(91, 5),
    F(94, 8), F(97, 4), F(100, 0), F(103, 5), F(107, 2),
    F(110, 9), F(114, 8), F(118, 8), F(123, 0), F(127, 3),
    F(131, 8), F(136, 5), F(141, 3), F(146, 2), F(151, 4),
    F(156, 7), F(162, 2), F(167, 9), F(173, 8), F(179, 9),
    F(186, 2), F(192, 8), F(203, 5), F(206, 5), F(210, 7),
    F(218, 1), F(225, 7), F(229, 1), F(233, 6), F(241, 8),
    F(250, 3), F(254, 1)}

EXTENDED_CTCSS_TONES ==
    {F(159, 8), F(165, 5), F(171, 3), F(177, 3), F(183, 5), F(189, 9),
     F(196, 6), F(199, 5)}

DEFAULT_CTCSS_TONE == F(88, 5)

DCS_TONES == {
    C(0,2,3), C(0,2,5), C(0,2,6), C(0,3,1), C(0,3,2), C(0,3,6), C(0,4,3), C(0,4,7),
    C(0,5,1), C(0,5,3), C(0,5,4), C(0,6,5), C(0,7,1), C(0,7,2), C(0,7,3), C(0,7,4),
    C(1,1,4), C(1,1,5), C(1,1,6), C(1,2,2), C(1,2,5), C(1,3,1), C(1,3,2), C(1,3,4),
    C(1,4,3), C(1,4,5), C(1,5,2), C(1,5,5), C(1,5,6), C(1,6,2), C(1,6,5), C(1,7,2),
    C(1,7,4), C(2,0,5), C(2,1,2), C(2,2,3), C(2,5,5), C(2,2,6), C(2,4,3), C(2,4,4),
    C(2,4,5), C(2,4,6), C(2,5,1), C(2,5,2), C(2,5,5), C(2,6,1), C(2,6,3), C(2,6,5),
    C(2,6,6), C(2,7,1), C(2,7,4), C(3,0,6), C(3,1,1), C(3,1,5), C(3,2,5), C(3,3,1),
    C(3,3,2), C(3,4,3), C(3,4,6), C(3,5,1), C(3,5,6), C(3,6,4), C(3,6,5), C(3,7,1),
    C(4,1,1), C(4,1,2), C(4,1,3), C(4,2,3), C(4,3,1), C(4,3,2), C(4,4,5), C(4,4,6),
    C(4,5,2), C(4,5,4), C(4,5,5), C(4,6,2), C(4,6,4), C(4,6,5), C(4,6,6), C(5,0,3),
    C(5,0,6), C(5,1,6), C(5,2,3), C(5,6,5), C(5,3,2), C(5,4,6), C(5,6,5), C(6,0,6),
    C(6,1,2), C(6,2,4), C(6,2,7), C(6,3,1), C(6,3,2), C(6,5,4), C(6,6,2), C(6,6,4),
    C(7,0,3), C(7,1,2), C(7,2,3), C(7,3,1), C(7,3,2), C(7,3,4), C(7,4,3), C(7,5,4)}

DEFAULT_DCS_TONE_CODE == C(0,2,3)

TONE_TYPE_UNRECOGNISED == 0
TONE_TYPE_CTCSS == 100
TONE_TYPE_DCS == 200

DEFAULT_TONE_MODE == ""
BASIC_TONE_MODE == "Tone"
TONE_SQUELCH_MODE == "TSQL"
DCS_TONE_MODE == "DTCS"

\* re.match of '^\s*' core '\s*$': some split of s into whitespace, a match
\* of the core pattern, and whitespace.
MatchPadded(s, Core(_)) ==
    \E a \in 0..Len(s) : \E b \in a..Len(s) :
        /\ \A i \in 1..a : s[i] \in Whitespace
        /\ \A i \in (b + 1)..Len(s) : s[i] \in Whitespace
        /\ Core(SubSeq(s, a + 1, b))

\* CtcssCore with the leading digit class cut to [12].
CtcssCore_LowOnly(c) ==
    \E k \in 1..2 : \E f \in {0, 2} :
        /\ Len(c) = 1 + k + f
        /\ c[1] \in {"1", "2"}
        /\ \A i \in 2..(1 + k) : c[i] \in Digits
        /\ f = 2 => (c[2 + k] = "." /\ c[3 + k] \in Digits)

\* [126789][0-9]{1,2}(\.[0-9])?
CtcssCore(c) ==
    \E k \in 1..2 : \E f \in {0, 2} :
        /\ Len(c) = 1 + k + f
        /\ c[1] \in {"1", "2", "6", "7", "8", "9"}
        /\ \A i \in 2..(1 + k) : c[i] \in Digits
        /\ f = 2 => (c[2 + k] = "." /\ c[3 + k] \in Digits)

CTCSS_TONE_REGEX(s) == MatchPadded(s, CtcssCore)

\* DcsCore without the optional leading [dD].
DcsCore_NoPrefix(c) ==
    \E q \in 0..1 :
        /\ Len(c) = q + 2
        /\ q = 1 => c[1] \in {"0", "1", "2", "3", "4", "5", "6", "7"}
        /\ c[q + 1] \in {"0", "1", "2", "3", "4", "5", "6", "7"}
        /\ c[q + 2] \in {"1", "2", "3", "4", "5", "6", "7"}

\* [dD]?[0-7]?[0-7][1-7]
DcsCore(c) ==
    \E p \in 0..1 : \E q \in 0..1 :
        /\ Len(c) = p + q + 2
        /\ p = 1 => c[1] \in {"d", "D"}
        /\ q = 1 => c[p + 1] \in {"0", "1", "2", "3", "4", "5", "6", "7"}
        /\ c[p + q + 1] \in {"0", "1", "2", "3", "4", "5", "6", "7"}
        /\ c[p + q + 2] \in {"1", "2", "3", "4", "5", "6", "7"}

DCS_TONE_REGEX(s) == MatchPadded(s, DcsCore)

-----------------------------------------------------------------------------
(* i2c.py: the tone classifiers.  Each returns [ret, warnings]: the value  *)
(* the function returns and the warnings it hands to warning(), in order.  *)

Returns(type, value, warnings) ==
    [ret |-> <<type, value>>, warnings |-> warnings]

is_ctcss_tone(t) ==
    IF t.kind = "None"
    THEN Returns(TONE_TYPE_UNRECOGNISED, g_default_ctcss_tone, <<"Tone string was null.">>)
    ELSE
    LET raw_tone == strip(t.chars) IN
    IF Len(raw_tone) = 0
    THEN Returns(TONE_TYPE_UNRECOGNISED, g_default_ctcss_tone,
                 <<"Tone string was zero length. Reverting to default.">>)
    ELSE IF ~CTCSS_TONE_REGEX(raw_tone)
    THEN Returns(TONE_TYPE_UNRECOGNISED, t, <<"This tone value is not a CTCSS tone">>)
    ELSE IF ~IsDecimal(raw_tone)
    THEN Returns(TONE_TYPE_UNRECOGNISED, t, <<"Not a CTCSS tone">>)
    ELSE
    LET tone_value == float(raw_tone) IN
    IF tone_value \in STANDARD_CTCSS_TONES
    THEN Returns(TONE_TYPE_CTCSS, PyStr(str(tone_value)), <<>>)
    ELSE IF tone_value \in EXTENDED_CTCSS_TONES
    THEN Returns(TONE_TYPE_CTCSS, PyStr(str(tone_value)),
                 <<"Extended CTCSS tone encountered">>)
    ELSE Returns(TONE_TYPE_UNRECOGNISED, t,
                 <<"Looks like a CTCSS tone but does not match the known set of correct values">>)

\* is_dcs_tone taking every three-character match of the pattern for a code.
is_dcs_tone_Unchecked3(t) ==
    IF t.kind = "None"
    THEN Returns(TONE_TYPE_UNRECOGNISED, t,
                 <<"Tone string was null. Reverting to default DCS value">>)
    ELSE
    LET raw_tone == strip(t.chars) IN
    IF Len(raw_tone) = 0
    THEN Returns(TONE_TYPE_UNRECOGNISED, t, <<"Tone string was zero length.">>)
    ELSE IF ~DCS_TONE_REGEX(raw_tone)
    THEN Returns(TONE_TYPE_UNRECOGNISED, t, <<"This value is not a valid DCS tone (pattern)">>)
    ELSE
    LET tone_str_len == Len(raw_tone) IN
    IF tone_str_len = 4
    THEN IF raw_tone[1] \in {"D", "d"} /\ Tail(raw_tone) \in DCS_TONES
         THEN Returns(TONE_TYPE_DCS, PyStr(raw_tone), <<>>)
         ELSE Returns(TONE_TYPE_UNRECOGNISED, t, <<"This value is not a valid DCS tone">>)
    ELSE IF tone_str_len = 3
    THEN Returns(TONE_TYPE_DCS, PyStr(raw_tone), <<>>)
    ELSE IF tone_str_len = 2
    THEN IF <<"0">> \o raw_tone \in DCS_TONES
         THEN Returns(TONE_TYPE_DCS, PyStr(raw_tone), <<>>)
         ELSE Returns(TONE_TYPE_UNRECOGNISED, t, <<"This value is not a valid DCS tone">>)
    ELSE Returns(TONE_TYPE_UNRECOGNISED, t, <<"This value is not a valid DCS tone">>)

is_dcs_tone(t) ==
    IF t.kind = "None"
    THEN Returns(TONE_TYPE_UNRECOGNISED, t,
                 <<"Tone string was null. Reverting to default DCS value">>)
    ELSE
    LET raw_tone == strip(t.chars) IN
    IF Len(raw_tone) = 0
    THEN Returns(TONE_TYPE_UNRECOGNISED, t, <<"Tone string was zero length.">>)
    ELSE IF ~DCS_TONE_REGEX(raw_tone)
    THEN Returns(TONE_TYPE_UNRECOGNISED, t, <<"This value is not a valid DCS tone (pattern)">>)
    ELSE
    LET tone_str_len == Len(raw_tone) IN
    IF tone_str_len = 4
    THEN IF raw_tone[1] \in {"D", "d"} /\ Tail(raw_tone) \in DCS_TONES
         THEN Returns(TONE_TYPE_DCS, PyStr(raw_tone), <<>>)
         ELSE Returns(TONE_TYPE_UNRECOGNISED, t, <<"This value is not a valid DCS tone">>)
    ELSE IF tone_str_len = 3
    THEN IF raw_tone \in DCS_TONES
         THEN Returns(TONE_TYPE_DCS, PyStr(raw_tone), <<>>)
         ELSE Returns(TONE_TYPE_UNRECOGNISED, t, <<"This value is not a valid DCS tone">>)
    ELSE IF tone_str_len = 2
    THEN IF <<"0">> \o raw_tone \in DCS_TONES
         THEN Returns(TONE_TYPE_DCS, PyStr(raw_tone), <<>>)
         ELSE Returns(TONE_TYPE_UNRECOGNISED, t, <<"This value is not a valid DCS tone">>)
    ELSE Returns(TONE_TYPE_UNRECOGNISED, t, <<"This value is not a valid DCS tone">>)

\* parse_tone_of handing back what is_dcs_tone returned for a token that is
\* neither a tone nor a code.
parse_tone_of_KeepInput(c, d) ==
    IF c.ret[1] = TONE_TYPE_CTCSS
    THEN Returns(c.ret[1], c.ret[2], c.warnings)
    ELSE Returns(d.ret[1], d.ret[2], c.warnings \o d.warnings)

\* parse_tone, given what is_ctcss_tone and is_dcs_tone return for its token
\* (is_dcs_tone is called, and its warnings written, only when c is not a
\* CTCSS classification).
parse_tone_of(c, d) ==
    IF c.ret[1] = TONE_TYPE_CTCSS
    THEN Returns(c.ret[1], c.ret[2], c.warnings)
    ELSE IF d.ret[1] = TONE_TYPE_DCS
    THEN Returns(d.ret[1], d.ret[2], c.warnings \o d.warnings)
    ELSE Returns(TONE_TYPE_UNRECOGNISED, PyNone, c.warnings \o d.warnings)

parse_tone(t) == parse_tone_of(is_ctcss_tone(t), is_dcs_tone(t))

\* tone_mode with the receive token deciding the mode of a channel whose
\* transmit token is no tone.
tone_mode_RxDecides(t, r) ==
    IF t.ret[1] = TONE_TYPE_CTCSS
    THEN IF r.ret[1] = TONE_TYPE_CTCSS THEN TONE_SQUELCH_MODE ELSE BASIC_TONE_MODE
    ELSE IF t.ret[1] = TONE_TYPE_DCS \/ r.ret[1] = TONE_TYPE_DCS THEN DCS_TONE_MODE
    ELSE DEFAULT_TONE_MODE

\* rx_ctcss_tone falling back on the constant instead of the -t default.
rx_ctcss_tone_Constant(t, r) ==
    IF t.ret[1] = TONE_TYPE_CTCSS /\ r.ret[1] = TONE_TYPE_CTCSS
    THEN r.ret[2] ELSE PyFloat(DEFAULT_CTCSS_TONE)

\* parse_tones, given what parse_tone returns for its two tokens t (transmit)
\* and r (receive): the five values it returns, named as its locals are.
tone_mode(t, r) ==
    IF t.ret[1] = TONE_TYPE_CTCSS
    THEN IF r.ret[1] = TONE_TYPE_CTCSS THEN TONE_SQUELCH_MODE ELSE BASIC_TONE_MODE
    ELSE IF t.ret[1] = TONE_TYPE_DCS THEN DCS_TONE_MODE
    ELSE DEFAULT_TONE_MODE

tx_ctcss_tone(t, r) ==
    IF t.ret[1] = TONE_TYPE_CTCSS THEN t.ret[2] ELSE g_default_ctcss_tone

rx_ctcss_tone(t, r) ==
    IF t.ret[1] = TONE_TYPE_CTCSS /\ r.ret[1] = TONE_TYPE_CTCSS
    THEN r.ret[2] ELSE g_default_ctcss_tone

\* The DCS branch assigns tx_dcs_tone and rx_dcs_tone, which are not the names
\* the function returns: the two codes stay as initialised.
tx_dcs_code(t, r) == PyStr(DEFAULT_DCS_TONE_CODE)

rx_dcs_code(t, r) == PyStr(DEFAULT_DCS_TONE_CODE)

parse_tones_of(t, r) ==
    [ret |-> <<tone_mode(t, r), tx_ctcss_tone(t, r), rx_ctcss_tone(t, r),
               tx_dcs_code(t, r), rx_dcs_code(t, r)>>,
     warnings |-> t.warnings \o r.warnings]

parse_tones(tx, rx) == parse_tones_of(parse_tone(tx), parse_tone(rx))

\* warning that writes whether or not warnings are shown.
warning_Always(ws) == stderr \o ws

\* warning(s) for each s of ws: written to stderr when warnings are shown.
warning(ws) == IF g_show_warnings THEN stderr \o ws ELSE stderr

-----------------------------------------------------------------------------
(* i2c.py: ics_parse.  The text of a warning stands for the message without *)
(* the values formatted into it.                                            *)

DEFAULT_FREQUENCY == 147120000
DEFAULT_MODULATION == "FM"
DEFAULT_SKIP == ""
DEFAULT_TUNE_STEP == "5.00"
DEFAULT_DCS_POLARITY == "NN"

\* line.split(','): the columns of a line.
RECURSIVE split(_)
split(line) ==
    IF \A i \in 1..Len(line) : line[i] # ","
    THEN <<line>>
    ELSE <<SubSeq(line, 1, SeqMin({i \in 1..Len(line) : line[i] = ","}) - 1)>>
            \o split(SubSeq(line, SeqMin({i \in 1..Len(line) : line[i] = ","}) + 1,
                            Len(line)))

cleanse_comments(raw_comments) == PyStr(<<"\"">> \o strip(raw_comments) \o <<"\"">>)

format_frequency(freq) == FormatFixed(freq, 6)

\* What a step of ics_parse did: raised an exception, or appended rows and
\* handed warnings to warning().
Outcome(exception, rows, warnings) ==
    [raised |-> exception, ret |-> rows, warnings |-> warnings]

\* The handler of the ValueError formats ics_row, a name parse_frequency does
\* not have, into its warning: the handler raises NameError.
parse_frequency(raw_frequency) ==
    IF IsDecimal(strip(raw_frequency))
    THEN Outcome("", PyStr(format_frequency(float(strip(raw_frequency)))), <<>>)
    ELSE Outcome("NameError", PyNone, <<>>)

is_null_row(channel_name, frequency) == Len(strip(channel_name)) = 0

\* The offset column: t_offset, or the ValueError of float().
t_offset_of(ics_row) ==
    IF Len(strip(ics_row[5])) > 0
    THEN IF IsDecimal(ics_row[5])
         THEN Outcome("", float(ics_row[5]), <<>>)
         ELSE Outcome("ValueError", 0, <<>>)
    ELSE Outcome("", 0, <<>>)

chirp_duplex_offset_sign(ics_row, t_offset) ==
    IF Len(strip(ics_row[5])) > 0
    THEN IF t_offset.ret > 0 THEN "+" ELSE "-"
    ELSE ""

\* The row ics_parse appends for the columns of a line, given what
\* parse_frequency returned for column 2, the t_offset of column 4 and what
\* parse_tones returned for columns 6 and 7.
cooked_row(ics_row, frequency, t_offset, tones) ==
    <<PyStr(strip(ics_row[1])),
      PyStr(ics_row[2]),
      frequency.ret,
      chirp_duplex_offset_sign(ics_row, t_offset),
      PyStr(format_frequency(Abs(t_offset.ret))),
      tones.ret[1], tones.ret[2], tones.ret[3], tones.ret[4],
      DEFAULT_DCS_POLARITY,
      DEFAULT_MODULATION,
      DEFAULT_TUNE_STEP,
      DEFAULT_SKIP,
      cleanse_comments(ics_row[9]),
      "", "", "">>

\* One iteration of the loop of ics_parse on the columns of a line, given
\* what the calls it makes on a channel line return.
ics_parse_row_of(ics_row, frequency, t_offset, tones) ==
    IF Len(ics_row) < 10
    THEN Outcome("", <<>>, <<"Row does not have enough columns">>)
    ELSE IF is_null_row(ics_row[2], ics_row[3])
    THEN Outcome("", <<>>, <<"A null row was encountered">>)
    ELSE IF frequency.raised # ""
    THEN Outcome(frequency.raised, <<>>, <<>>)
    ELSE IF t_offset.raised # ""
    THEN Outcome(t_offset.raised, <<>>, frequency.warnings)
    ELSE Outcome("", <<cooked_row(ics_row, frequency, t_offset, tones)>>,
                 frequency.warnings \o tones.warnings)

ics_parse_row(ics_row) ==
    ics_parse_row_of(ics_row, parse_frequency(ics_row[3]), t_offset_of(ics_row),
                     parse_tones(PyStr(ics_row[7]), PyStr(ics_row[8])))

\* What ics_parse did after one more iteration.
ics_parse_after(done, step) ==
    Outcome(step.raised, done.ret \o step.ret, done.warnings \o step.warnings)

\* The loop of ics_parse from line i on, after the iterations so far did done.
RECURSIVE ics_parse_from(_, _, _)
ics_parse_from(raw_ics_data, i, done) ==
    IF i > Len(raw_ics_data) \/ done.raised # "" THEN done
    ELSE ics_parse_from(raw_ics_data, i + 1,
                        ics_parse_after(done, ics_parse_row(split(raw_ics_data[i]))))

ics_parse(raw_ics_data) == ics_parse_from(raw_ics_data, 1, Outcome("", <<>>, <<>>))

-----------------------------------------------------------------------------
(* c2rt.py: the frequency columns. *)

c2rt_rx_frequency(chirp_frequency) == FormatFixed(float(chirp_frequency), 5)

\* c2rt_tx_frequency that adds the offset for '-' as it does for '+'.
c2rt_tx_frequency_MinusAdds(rx_frequency, chirp_duplex, chirp_offset) ==
    LET offset == float(chirp_offset)
        transmit_frequency ==
            IF chirp_duplex \in {"+", "-"} THEN float(rx_frequency) + offset
            ELSE float(rx_frequency)
        offset_direction ==
            IF chirp_duplex = "+" THEN "Plus"
            ELSE IF chirp_duplex = "-" THEN "Minus"
            ELSE "Simplex"
    IN  <<FormatFixed(transmit_frequency, 5), offset_direction>>

c2rt_tx_frequency(rx_frequency, chirp_duplex, chirp_offset) ==
    LET offset == float(chirp_offset)
        transmit_frequency ==
            IF chirp_duplex = "+" THEN float(rx_frequency) + offset
            ELSE IF chirp_duplex = "-" THEN float(rx_frequency) - offset
            ELSE float(rx_frequency)
        offset_direction ==
            IF chirp_duplex = "+" THEN "Plus"
            ELSE IF chirp_duplex = "-" THEN "Minus"
            ELSE "Simplex"
    IN  <<FormatFixed(transmit_frequency, 5), offset_direction>>

\* int(x) of a float: the integer part, truncated towards zero.
int_of_float(m) == IF m < 0 THEN 0 - ((0 - m) \div Scale) ELSE m \div Scale

\* f"{n}" of an int.
IntToChars(n) == IF n < 0 THEN <<"-">> \o NatToDigits(0 - n) ELSE NatToDigits(n)

kHz == <<" ", "k", "H", "z">>
MHz == <<" ", "M", "H", "z">>

\* c2rt_offset that rounds the kilohertz to the nearest instead of truncating.
c2rt_offset_Rounded(chirp_offset) ==
    LET offset == float(chirp_offset)
    IN  IF offset = 0 THEN <<>>
        ELSE IF offset < Scale
            THEN IntToChars(int_of_float(offset * 1000 + (Scale \div 2))) \o kHz
        ELSE IF offset >= Scale THEN FormatFixed(offset, 2) \o MHz
        ELSE <<>>

c2rt_offset(chirp_offset) ==
    LET offset == float(chirp_offset)
    IN  IF offset = 0 THEN <<>>
        ELSE IF offset < Scale THEN IntToChars(int_of_float(offset * 1000)) \o kHz
        ELSE IF offset >= Scale THEN FormatFixed(offset, 2) \o MHz
        ELSE <<>>

-----------------------------------------------------------------------------
(* c2rt.py: the other columns. *)

\* int(s) of the text of an integer: blanks around it and a sign are allowed.
IsInteger(s) ==
    LET t == strip(s)
        b == IF t # <<>> /\ t[1] \in {"-", "+"} THEN Tail(t) ELSE t
    IN  /\ b # <<>>
        /\ \A i \in 1..Len(b) : b[i] \in Digits

int(s) ==
    LET t == strip(s)
        b == IF t[1] \in {"-", "+"} THEN Tail(t) ELSE t
    IN  IF t[1] = "-" THEN 0 - DigitsToNat(b) ELSE DigitsToNat(b)

c2rt_channel_number(chirp_location) == IntToChars(int(chirp_location))

c2rt_tone(chirp_tone) ==
    IF chirp_tone = "Tone" THEN "Tone"
    ELSE IF chirp_tone = "TSQL" THEN "T Sql"
    ELSE IF chirp_tone = "DTCS" THEN "DCS"
    ELSE "None"

Hz == <<" ", "H", "z">>

c2rt_CTCSS_tone(chirp_tone_mode, chirp_rx_tone_freq) ==
    IF c2rt_tone(chirp_tone_mode) \in {"Tone", "T Sql"}
        THEN FormatFixed(float(chirp_rx_tone_freq), 1) \o Hz
        ELSE <<>>

c2rt_DCS(chirp_dtcs_code) == IF chirp_dtcs_code = "DTCS" THEN "DCS" ELSE ""

c2rt_step(chirp_step) == chirp_step \o kHz

-----------------------------------------------------------------------------
(* i2c.py and website_table_gen.py: process_options.  Each branch of the   *)
(* loop gives the new value of the global and the warnings it hands to      *)
(* warning().                                                               *)

NUMBER_ROWS_TO_IGNORE_IN_SRC == 0
DEFAULT_NUM_ROWS_TO_SKIP == 0

\* skip_rows after the try: int(a), or what the script left or put in it.
skip_rows_of(a, otherwise) == IF IsInteger(a) THEN int(a) ELSE otherwise

\* The warnings of the -f branch, for the skip_rows it reached.
skip_rows_warnings(a, skip_rows) ==
    (IF IsInteger(a) THEN <<>>
     ELSE <<"Trying to convert to a positive integer failed. Ignoring">>)
    \o (IF skip_rows >= 0 /\ skip_rows < 10 THEN <<>>
        ELSE <<"The number of rows to skip is out of range (0 .. 9). Ignoring">>)

\* i2c.py, -f a: g_skip_rows is set to 0 first.
i2c_skip_first_rows(a) ==
    [g_skip_rows |->
        IF /\ skip_rows_of(a, NUMBER_ROWS_TO_IGNORE_IN_SRC) >= 0
           /\ skip_rows_of(a, NUMBER_ROWS_TO_IGNORE_IN_SRC) < 10
        THEN skip_rows_of(a, NUMBER_ROWS_TO_IGNORE_IN_SRC)
        ELSE 0,
     warnings |->
        skip_rows_warnings(a, skip_rows_of(a, NUMBER_ROWS_TO_IGNORE_IN_SRC))]

\* website_table_gen.py, -f a: g_skip_rows is assigned only in range.
wtg_skip_first_rows(a) ==
    [g_skip_rows |->
        IF /\ skip_rows_of(a, DEFAULT_NUM_ROWS_TO_SKIP) >= 0
           /\ skip_rows_of(a, DEFAULT_NUM_ROWS_TO_SKIP) < 10
        THEN skip_rows_of(a, DEFAULT_NUM_ROWS_TO_SKIP)
        ELSE g_skip_rows,
     warnings |->
        skip_rows_warnings(a, skip_rows_of(a, DEFAULT_NUM_ROWS_TO_SKIP))]

\* verbose(s) for each s of ws, after out was written.
verbose(out, ws) == IF g_verbose THEN out \o ws ELSE out

\* i2c.py, -t a, given what parse_tone returned for a: the text written.
tone_option_stderr(r) ==
    verbose(warning(r.warnings),
            IF r.ret[1] = TONE_TYPE_CTCSS
            THEN <<"Default CTCSS tone has been set to">> ELSE <<>>)

-----------------------------------------------------------------------------
(* c2rt.py: the comment column. *)

\* s[:k] of a string: the first k characters, or all but the last -k.
SliceTo(s, k) ==
    IF k >= 0 THEN SubSeq(s, 1, SeqMin({k, Len(s)}))
    ELSE SubSeq(s, 1, SeqMax({Len(s) + k, 0}))

Ellipsis == <<".", ".", ".">>

\* What a call did: raised an exception, or returned a value.
Raises(exception) == [raised |-> exception, ret |-> PyNone]
Return(value) == [raised |-> "", ret |-> value]

\* truncate_comments that accepts any max_size from 0 up.
truncate_comments_NoUpperLimit(chirp_comment, max_size) ==
    IF max_size < 0 THEN Raises("ValueError")
    ELSE IF Len(chirp_comment) < max_size THEN Return(PyStr(chirp_comment))
    ELSE Return(PyStr(SliceTo(chirp_comment, max_size - 3) \o Ellipsis))

truncate_comments(chirp_comment, max_size) ==
    IF max_size < 0 \/ max_size > 60 THEN Raises("ValueError")
    ELSE IF Len(chirp_comment) < max_size THEN Return(PyStr(chirp_comment))
    ELSE Return(PyStr(SliceTo(chirp_comment, max_size - 3) \o Ellipsis))

-----------------------------------------------------------------------------
(* c2rt.py: convert. *)

RT_headers ==
    <<"Channel Number", "Receive Frequency", "Transmit Frequency",
      "Offset Frequency", "Offset Direction", "Operating Mode", "Name",
      "Tone Mode", "CTCSS", "DCS", "PR Freq", "Tx Power", "Skip", "Step",
      "Clock Shift", "Comment">>

CHIRP_headers ==
    <<"Location", "Name", "Frequency", "Duplex", "Offset", "Tone", "rToneFreq",
      "cToneFreq", "DtcsCode", "DtcsPolarity", "Mode", "TStep", "Skip",
      "Comment", "URCALL", "RPT1CALL", "RPT2CALL">>

\* The dict csv.DictReader makes of a line, keyed by the names of the first
\* line.
DictOf(fieldnames, line) ==
    [name \in {fieldnames[j] : j \in 1..Len(fieldnames)} |->
        line[CHOOSE j \in 1..Len(fieldnames) : fieldnames[j] = name]]

\* The line csv.DictWriter writes for a dict.
LineOf(fieldnames, row) == [j \in 1..Len(fieldnames) |-> row[fieldnames[j]]]

import_CHIRP(file) ==
    [i \in 1..(Len(file) - 1) |-> DictOf(file[1], file[i + 1])]

\* The rt_row chirp2rt builds from one chirp_row.
rt_row_of(row) ==
    [name \in {RT_headers[j] : j \in 1..Len(RT_headers)} |->
        CASE name = "Channel Number" -> c2rt_channel_number(row["Location"])
          [] name = "Receive Frequency" -> c2rt_rx_frequency(row["Frequency"])
          [] name = "Transmit Frequency" ->
                c2rt_tx_frequency(c2rt_rx_frequency(row["Frequency"]),
                                  row["Duplex"], row["Offset"])[1]
          [] name = "Offset Direction" ->
                c2rt_tx_frequency(c2rt_rx_frequency(row["Frequency"]),
                                  row["Duplex"], row["Offset"])[2]
          [] name = "Offset Frequency" -> c2rt_offset(row["Offset"])
          [] name = "Operating Mode" -> row["Mode"]
          [] name = "Name" -> row["Name"]
          [] name = "Tone Mode" -> c2rt_tone(row["Tone"])
          [] name = "CTCSS" -> c2rt_CTCSS_tone(row["Tone"], row["rToneFreq"])
          [] name = "DCS" -> c2rt_DCS(row["DtcsCode"])
          [] name = "PR Freq" -> "1500 Hz"
          [] name = "Tx Power" -> "High"
          [] name = "Skip" -> "Off"
          [] name = "Step" -> c2rt_step(row["TStep"])
          [] name = "Clock Shift" -> "Off"
          [] name = "Comment" -> truncate_comments(row["Comment"], 50).ret.chars]

chirp2rt(raw_chirp_data) ==
    [i \in 1..Len(raw_chirp_data) |-> rt_row_of(raw_chirp_data[i])]

\* export_RT that does not count the header.
export_RT_HeaderUncounted(RT_rows) ==
    [file |-> <<RT_headers>> \o
                [i \in 1..Len(RT_rows) |-> LineOf(RT_headers, RT_rows[i])],
     ret |-> Len(RT_rows)]

\* export_RT: the lines written, and the number returned.
export_RT(RT_rows) ==
    [file |-> <<RT_headers>> \o
                [i \in 1..Len(RT_rows) |-> LineOf(RT_headers, RT_rows[i])],
     ret |-> 1 + Len(RT_rows)]

-----------------------------------------------------------------------------
(* i2c.py: __main__ and the functions it calls after process_options.  A   *)
(* file is the sequence of its lines, each with its line end.              *)

VERSION_TOKEN_FILE == "../CURRENT_VERSION_TOKEN.txt"

CARES_CONTROL_CHANNEL_START == <<",">>

CARES_CONTROL_CHANNEL_END ==
    <<",", "1", "4", "7", ".", "1", "2", "0", "0", "0", "0", ",", "+",
      ",", "0", ".", "6", "0", "0", "0", "0", "0", ",", "T", "o", "n",
      "e", ",", "1", "0", "0", ".", "0", ",", "1", "0", "0", ".", "0",
      ",", "0", "2", "3", ",", "N", "N", ",", "F", "M", ",", "5", ".",
      "0", "0", ",", ",", ",", ",", ",", ",", ",", ",">>

CHIRP_CSV_HEADER_FIELDS ==
    <<"L", "o", "c", "a", "t", "i", "o", "n", ",", "N", "a", "m", "e",
      ",", "F", "r", "e", "q", "u", "e", "n", "c", "y", ",", "D", "u",
      "p", "l", "e", "x", ",", "O", "f", "f", "s", "e", "t", ",", "T",
      "o", "n", "e", ",", "r", "T", "o", "n", "e", "F", "r", "e", "q",
      ",", "c", "T", "o", "n", "e", "F", "r", "e", "q", ",", "D", "t",
      "c", "s", "C", "o", "d", "e", ",", "D", "t", "c", "s", "P", "o",
      "l", "a", "r", "i", "t", "y", ",", "M", "o", "d", "e", ",", "T",
      "S", "t", "e", "p", ",", "S", "k", "i", "p", ",", "C", "o", "m",
      "m", "e", "n", "t", ",", "U", "R", "C", "A", "L", "L", ",", "R",
      "P", "T", "1", "C", "A", "L", "L", ",", "R", "P", "T", "2", "C",
      "A", "L", "L">>

\* What a function of __main__ did: raised an exception or left through
\* sys.exit(status) (exit is <<status>>), or returned value; printed is what
\* it printed and warnings what it handed to warning().
Did(exception, exit, value, printed, warnings) ==
    [raised |-> exception, exit |-> exit, ret |-> value, printed |-> printed,
     warnings |-> warnings]

get_filenames(file_args) ==
    IF Len(file_args) = 2
    THEN Did("", <<>>, <<file_args[1], file_args[2]>>, <<>>, <<>>)
    ELSE Did("NumberOfFilesError", <<>>, <<>>,
             <<"Incorrect number of filenames. There should be an input and output file specified">>,
             <<>>)

\* The characters \w matches, among those of the model.
Letters ==
    {"A", "B", "C", "D", "E", "F", "G", "H", "I", "J", "K", "L", "M", "N",
     "O", "P", "Q", "R", "S", "T", "U", "V", "W", "X", "Y", "Z", "a", "b",
     "c", "d", "e", "f", "g", "h", "i", "j", "k", "l", "m", "n", "o", "p",
     "q", "r", "s", "t", "u", "v", "w", "x", "y", "z"}

WordChars == Letters \cup Digits \cup {"_"}

\* The regular expressions of load_version_channel_name, matched against a
\* line that has no line end before its last character.
blank_line_re(line) == \A i \in 1..Len(line) : line[i] \in Whitespace

comment_line_re(line) == strip(line) # <<>> /\ strip(line)[1] = "#"

version_token_re(line) ==
    /\ Len(strip(line)) \in 1..6
    /\ \A i \in 1..Len(strip(line)) : strip(line)[i] \in WordChars

\* The loop of load_version_channel_name from line i on: ret is the value
\* of g_control_channel it leaves.
RECURSIVE load_version_from(_, _)
load_version_from(lines, i) ==
    IF i > Len(lines) THEN Did("", <<>>, g_control_channel, <<>>, <<>>)
    ELSE IF blank_line_re(lines[i]) \/ comment_line_re(lines[i])
    THEN load_version_from(lines, i + 1)
    ELSE IF version_token_re(lines[i])
    THEN Did("", <<>>,
             PyStr(CARES_CONTROL_CHANNEL_START \o strip(lines[i])
                    \o CARES_CONTROL_CHANNEL_END),
             <<>>, <<>>)
    ELSE Did("", <<11>>, g_control_channel, <<>>,
             <<"Unexpected content in the version token file">>)

\* load_version_channel_name, given the file VERSION_TOKEN_FILE names: open()
\* raises when there is none.
load_version_channel_name(file) ==
    IF file.found THEN load_version_from(file.lines, 1)
    ELSE Did("FileNotFoundError", <<>>, g_control_channel, <<>>, <<>>)

\* read_ICS_217A: the lines of the file from line g_skip_rows on.
read_ICS_217A(lines) == SubSeq(lines, g_skip_rows + 1, Len(lines))

\* The characters of the constants ics_parse puts in a row as they are.
Chars(word) ==
    CASE word = "" -> <<>>
      [] word = "+" -> <<"+">>
      [] word = "-" -> <<"-">>
      [] word = BASIC_TONE_MODE -> <<"T", "o", "n", "e">>
      [] word = TONE_SQUELCH_MODE -> <<"T", "S", "Q", "L">>
      [] word = DCS_TONE_MODE -> <<"D", "T", "C", "S">>
      [] word = DEFAULT_DCS_POLARITY -> <<"N", "N">>
      [] word = DEFAULT_MODULATION -> <<"F", "M">>
      [] word = DEFAULT_TUNE_STEP -> <<"5", ".", "0", "0">>

\* str(field) of a Python value.
py_str(field) ==
    IF field.kind = "str" THEN field.chars
    ELSE IF field.kind = "float" THEN str(field.micro)
    ELSE <<"N", "o", "n", "e">>

\* ",".join([str(field) for field in r]) + '\n' for a row of ics_parse.
row_line(r) ==
    Join(<<py_str(r[1]), py_str(r[2]), py_str(r[3]), Chars(r[4]), py_str(r[5]),
           Chars(r[6]), py_str(r[7]), py_str(r[8]), py_str(r[9]), Chars(r[10]),
           Chars(r[11]), Chars(r[12]), Chars(r[13]), py_str(r[14]), Chars(r[15]),
           Chars(r[16]), Chars(r[17])>>) \o <<"\n">>

\* last_row when the loop of generate_output is over.
last_row_of(rows) == IF rows = <<>> THEN <<>> ELSE py_str(rows[Len(rows)][1])

\* generate_output: ret is the lines written before it returned or raised.
\* "0" + None raises TypeError, int(last_row) raises ValueError.
generate_output(rows, with_control_channel, control_channel) ==
    LET head == <<CHIRP_CSV_HEADER_FIELDS \o <<"\n">>>>
        body == [i \in 1..Len(rows) |-> row_line(rows[i])]
    IN  IF ~with_control_channel
        THEN Did("", <<>>, head \o body, <<>>, <<>>)
        ELSE IF control_channel.kind # "str"
        THEN Did("TypeError", <<>>, head, <<>>, <<>>)
        ELSE IF ~IsInteger(last_row_of(rows))
        THEN Did("ValueError", <<>>,
                 head \o <<<<"0">> \o control_channel.chars \o <<"\n">>>> \o body,
                 <<>>, <<>>)
        ELSE Did("", <<>>,
                 head \o <<<<"0">> \o control_channel.chars \o <<"\n">>>> \o body
                    \o <<IntToChars(int(last_row_of(rows)) + 1)
                            \o control_channel.chars \o <<"\n">>>>,
                 <<>>, <<>>)

-----------------------------------------------------------------------------
(* website_table_gen.py: the functions __main__ calls after                *)
(* process_options.                                                        *)

HEADER_ROW ==
    <<"C", "h", "a", "n", "n", "e", "l", ",", " ", "N", "a", "m", "e",
      ",", " ", "F", "r", "e", "q", "u", "e", "n", "c", "y", ",", " ",
      "D", "u", "p", "l", "e", "x", ",", " ", "O", "f", "f", "s", "e",
      "t", ",", " ", "S", "q", "u", "e", "l", "c", "h", " ", "T", "y",
      "p", "e", ",", " ", "T", "o", "n", "e", " ", "F", "r", "e", "q",
      ",", " ", "C", "o", "m", "m", "e", "n", "t">>

WEB_DCS_TONE_MODE_ACRONYM == <<"D", "C", "S">>

\* What usage() prints.
wtg_usage == <<"Usage: website_table_gen.py [options] chirp_csv_file target_csv_file">>

\* A line without its line end.
chomp(line) ==
    IF line # <<>> /\ line[Len(line)] = "\n"
    THEN IF Len(line) > 1 /\ line[Len(line) - 1] = "\r"
         THEN SubSeq(line, 1, Len(line) - 2) ELSE SubSeq(line, 1, Len(line) - 1)
    ELSE line

\* A field csv.reader reads, for fields without a comma or a quote inside.
unquote(text) ==
    IF Len(text) >= 2 /\ text[1] = "\"" /\ text[Len(text)] = "\""
    THEN SubSeq(text, 2, Len(text) - 1) ELSE text

\* The row csv.reader makes of a line: none of an empty line.
csv_reader_row(line) ==
    IF chomp(line) = <<>> THEN <<>>
    ELSE [j \in 1..Len(split(chomp(line))) |-> unquote(split(chomp(line))[j])]

\* The columns read_raw_input keeps of a CHIRP row: CHANNEL_NUM to TX_TONE,
\* DTCS_CODE and COMMENT.
truncated_row(raw_row) ==
    <<raw_row[1], raw_row[2], raw_row[3], raw_row[4], raw_row[5], raw_row[6],
      raw_row[7], raw_row[9], raw_row[14]>>

\* The loop of read_raw_input from line i on, after the header and
\* g_skip_rows lines: a row without a column it keeps raises IndexError.
RECURSIVE read_raw_input_from(_, _, _)
read_raw_input_from(lines, i, done) ==
    IF i > Len(lines) THEN Outcome("", done, <<>>)
    ELSE IF Len(csv_reader_row(lines[i])) < 14 THEN Outcome("IndexError", done, <<>>)
    ELSE read_raw_input_from(lines, i + 1,
                             Append(done, truncated_row(csv_reader_row(lines[i]))))

read_raw_input(lines) == read_raw_input_from(lines, 2 + g_skip_rows, <<>>)

wtg_format_frequency(freq) == FormatFixed(float(freq), 4)

format_offset(offset_frequency) == FormatFixed(float(offset_frequency), 1)

\* The two columns process_rows makes of the tone mode of a row.
squelch_columns(rrow, mode) ==
    IF mode = <<>> THEN <<<<>>, <<>>>>
    ELSE IF mode = Chars(BASIC_TONE_MODE) THEN <<mode, strip(rrow[7])>>
    ELSE IF mode = Chars(TONE_SQUELCH_MODE)
    THEN <<mode, <<"T", "x", ":", " ">> \o strip(rrow[7])
                    \o <<";", " ", "R", "x", ":", " ">> \o strip(rrow[7])>>
    ELSE IF mode = Chars(DCS_TONE_MODE)
    THEN <<WEB_DCS_TONE_MODE_ACRONYM, strip(rrow[8])>>
    ELSE <<<<"N", "/", "A">>, <<>>>>

\* One iteration of the loop of process_rows: float() raises ValueError.
process_row(rrow) ==
    IF ~IsDecimal(rrow[3]) THEN Outcome("ValueError", <<>>, <<>>)
    ELSE IF Len(strip(rrow[5])) # 0 /\ ~IsDecimal(rrow[5])
    THEN Outcome("ValueError", <<>>, <<>>)
    ELSE Outcome("",
                 <<<<strip(rrow[1]), strip(rrow[2]), wtg_format_frequency(rrow[3]),
                     strip(rrow[4]),
                     IF Len(strip(rrow[5])) = 0 \/ float(strip(rrow[5])) = 0
                     THEN <<>> ELSE format_offset(strip(rrow[5]))>>
                    \o squelch_columns(rrow, strip(rrow[6]))
                    \o <<strip(rrow[9])>>>>,
                 IF strip(rrow[6]) \in {<<>>, Chars(BASIC_TONE_MODE),
                                       Chars(TONE_SQUELCH_MODE), Chars(DCS_TONE_MODE)}
                 THEN <<>> ELSE <<"Uninterpretable mode for channel">>)

RECURSIVE process_rows_from(_, _, _)
process_rows_from(rows, i, done) ==
    IF i > Len(rows) \/ done.raised # "" THEN done
    ELSE process_rows_from(rows, i + 1, ics_parse_after(done, process_row(rows[i])))

process_rows(rows) == process_rows_from(rows, 1, Outcome("", <<>>, <<>>))

\* A field as csv.writer writes it with QUOTE_MINIMAL.
RECURSIVE doubled(_)
doubled(text) ==
    IF text = <<>> THEN <<>>
    ELSE (IF text[1] = "\"" THEN <<"\"", "\"">> ELSE <<text[1]>>) \o doubled(Tail(text))

csv_writer_field(text) ==
    IF \E i \in 1..Len(text) : text[i] \in {",", "\"", "\r", "\n"}
    THEN <<"\"">> \o doubled(text) \o <<"\"">> ELSE text

\* website_table_gen.py's generate_output: the lines written.
wtg_generate_output(rows) ==
    <<HEADER_ROW \o <<"\n">>>>
        \o [i \in 1..Len(rows) |->
                Join([j \in 1..Len(rows[i]) |-> csv_writer_field(rows[i][j])])
                    \o <<"\r", "\n">>]

-----------------------------------------------------------------------------
(* The inputs. *)

Alphabet == Digits \cup {".", "D", "d", "x"}

\* The length of a DCS code.
CodeLen == 3

SeqsUpTo(S, lo, hi) == UNION {[1..k -> S] : k \in lo..hi}

ArbitraryTokens == SeqsUpTo(Alphabet, 0, MaxLen)
CodeTokens ==
    {p \o c : p \in {<<>>, <<"D">>, <<"d">>}, c \in SeqsUpTo(Digits, 1, CodeLen)}
DecimalTokens == {str(n * (Scale \div 10)) : n \in 0..MaxTenths}

Blanks(n) == [i \in 1..n |-> " "]

Padded(S) == {Blanks(l) \o s \o Blanks(r) : l \in 0..MaxPad, r \in 0..MaxPad, s \in S}

\* What a tone column or a -t option can hold.
Tokens ==
    {PyStr(s) : s \in Padded(ArbitraryTokens \cup CodeTokens \cup DecimalTokens)}
        \cup {PyNone}

\* The tone columns of a row: the tones and codes of the tables as the plan
\* writes them, a blank column, and values that are neither.
TableTokens ==
    {PyStr(str(v)) : v \in STANDARD_CTCSS_TONES \cup EXTENDED_CTCSS_TONES}
        \cup {PyStr(c) : c \in DCS_TONES}
        \cup {PyStr(s) : s \in
                {<<>>, <<" ">>, <<"1", "0", "0">>, <<" ", "6", "7", ".", "0", " ">>,
                 <<"1", "0", "0", ".", "1">>, <<"D", "0", "2", "5">>,
                 <<"d", "7", "5", "4">>, <<"2", "5">>, <<" ", "4", "7", " ">>,
                 <<"D", "0", "2", "4">>, <<"0", "2", "4">>, <<"x">>}}

\* The -t options of a run: none, or one with this value.
ToneOptions == {PyStr(<<"1", "0", "0">>), PyStr(<<"0", "2", "3">>)}

Frequencies ==
    {FormatFixed(144 * Scale + k * 12500, 6) : k \in 0..MaxChannel}
        \cup {FormatFixed(147120000, 6)}
Duplexes == {"", "+", "-", "split"}
\* The offsets of the plan, and a grid of offsets below and above 1 MHz, with
\* and without a fraction of a kilohertz (none of them half way between two
\* hundredths of a megahertz).
Offsets ==
    {FormatFixed(m, 6) : m \in {0, 600000, Scale, 5 * Scale}} \cup {<<"0", ".", "0">>}
        \cup {FormatFixed(k * 124000 + j, 6) : k \in 0..MaxOffsetSteps, j \in {0, 500}}

-----------------------------------------------------------------------------
(* Spec: one tone token classified by is_ctcss_tone, is_dcs_tone or        *)
(* parse_tone.                                                             *)

NoRow == <<>>

\* The variables of convert, ics_parse and process_options while none of them
\* has been called.
NoConvert ==
    /\ arg_max_size = 0
    /\ input_file = <<>>
    /\ raw_chirp_content = <<>>
    /\ RT_content = <<>>
    /\ output_file = <<>>

NoOptions ==
    /\ script = ""
    /\ opts = <<>>
    /\ handled = 0
    /\ g_skip_rows = 0
    /\ g_verbose = FALSE
    /\ g_print_help_and_exit = FALSE

\* The variables of __main__ while no script runs as a programme.
NoMain ==
    /\ pc = ""
    /\ args = <<>>
    /\ use_control_channel = FALSE
    /\ version_file = <<>>
    /\ g_control_channel = PyNone
    /\ cooked = <<>>
    /\ raw_rows = <<>>
    /\ cooked_rows = <<>>
    /\ opened = <<>>
    /\ stdout = <<>>
    /\ exit_code = <<>>

Init ==
    /\ g_show_warnings \in BOOLEAN
    /\ g_default_ctcss_tone = PyFloat(DEFAULT_CTCSS_TONE)
    /\ stderr = <<>>
    /\ call = ""
    /\ tone_str \in Tokens
    /\ tx_tone_str = PyNone
    /\ rx_tone_str = PyNone
    /\ ret = <<>>
    /\ chirp_row = NoRow
    /\ rt_row = NoRow
    /\ raised = ""
    /\ NoConvert
    /\ raw_input_lines = <<>>
    /\ NoOptions
    /\ NoMain

Called(name, r) ==
    /\ call = ""
    /\ call' = name
    /\ ret' = r.ret
    /\ stderr' = warning(r.warnings)
    /\ UNCHANGED <<g_show_warnings, g_default_ctcss_tone, tone_str, tx_tone_str,
                   rx_tone_str, chirp_row, rt_row>>
    /\ UNCHANGED <<raised, convertVars, raw_input_lines, optionVars>>
    /\ UNCHANGED mainVars

IsCtcssTone == Called("is_ctcss_tone", is_ctcss_tone(tone_str))

IsDcsTone == Called("is_dcs_tone", is_dcs_tone(tone_str))

ParseTone == Called("parse_tone", parse_tone(tone_str))

Next == IsCtcssTone \/ IsDcsTone \/ ParseTone

Spec == Init /\ [][Next]_vars

-----------------------------------------------------------------------------
(* SpecTones: process_options handles the -t options, then parse_tones     *)
(* resolves the two tone columns of a row.                                 *)

InitTones ==
    /\ g_show_warnings \in BOOLEAN
    /\ g_default_ctcss_tone = PyFloat(DEFAULT_CTCSS_TONE)
    /\ stderr = <<>>
    /\ call = ""
    /\ tone_str = PyNone
    /\ tx_tone_str \in TableTokens
    /\ rx_tone_str \in TableTokens
    /\ ret = <<>>
    /\ chirp_row = NoRow
    /\ rt_row = NoRow
    /\ raised = ""
    /\ NoConvert
    /\ raw_input_lines = <<>>
    /\ NoOptions
    /\ NoMain

\* process_options, option -t a: a CTCSS tone becomes the default tone.
default_tone_of(r) ==
    IF r.ret[1] = TONE_TYPE_CTCSS THEN r.ret[2] ELSE g_default_ctcss_tone

OptionTone ==
    /\ call = ""
    /\ \E a \in ToneOptions :
        /\ call' = "process_options"
        /\ g_default_ctcss_tone' = default_tone_of(parse_tone(a))
        /\ stderr' = warning(parse_tone(a).warnings)
    /\ UNCHANGED <<g_show_warnings, tone_str, tx_tone_str, rx_tone_str, ret,
                   chirp_row, rt_row>>
    /\ UNCHANGED <<raised, convertVars, raw_input_lines, optionVars>>
    /\ UNCHANGED mainVars

ParseTones ==
    /\ call \in {"", "process_options"}
    /\ call' = "parse_tones"
    /\ ret' = parse_tones(tx_tone_str, rx_tone_str).ret
    /\ stderr' = warning(parse_tones(tx_tone_str, rx_tone_str).warnings)
    /\ UNCHANGED <<g_show_warnings, g_default_ctcss_tone, tone_str, tx_tone_str,
                   rx_tone_str, chirp_row, rt_row>>
    /\ UNCHANGED <<raised, convertVars, raw_input_lines, optionVars>>
    /\ UNCHANGED mainVars

NextTones == OptionTone \/ ParseTones

SpecTones == InitTones /\ [][NextTones]_vars

-----------------------------------------------------------------------------
(* SpecC2rt: chirp2rt fills the frequency and offset columns of one RT     *)
(* Systems row.                                                            *)

InitC2rt ==
    /\ g_show_warnings = FALSE
    /\ g_default_ctcss_tone = PyFloat(DEFAULT_CTCSS_TONE)
    /\ stderr = <<>>
    /\ call = ""
    /\ tone_str = PyNone
    /\ tx_tone_str = PyNone
    /\ rx_tone_str = PyNone
    /\ ret = <<>>
    /\ chirp_row \in [Frequency : Frequencies, Duplex : Duplexes, Offset : Offsets]
    /\ rt_row = NoRow
    /\ raised = ""
    /\ NoConvert
    /\ raw_input_lines = <<>>
    /\ NoOptions
    /\ NoMain

C2rtRxFrequency ==
    /\ call = ""
    /\ call' = "c2rt_rx_frequency"
    /\ ret' = c2rt_rx_frequency(chirp_row.Frequency)
    /\ rt_row' = [Receive |-> ret']
    /\ UNCHANGED <<g_show_warnings, g_default_ctcss_tone, stderr, tone_str,
                   tx_tone_str, rx_tone_str, chirp_row>>
    /\ UNCHANGED <<raised, convertVars, raw_input_lines, optionVars>>
    /\ UNCHANGED mainVars

C2rtTxFrequency ==
    /\ call = "c2rt_rx_frequency"
    /\ call' = "c2rt_tx_frequency"
    /\ ret' = c2rt_tx_frequency(rt_row.Receive, chirp_row.Duplex, chirp_row.Offset)
    /\ rt_row' = [Receive |-> rt_row.Receive, Transmit |-> ret'[1], Direction |-> ret'[2]]
    /\ UNCHANGED <<g_show_warnings, g_default_ctcss_tone, stderr, tone_str,
                   tx_tone_str, rx_tone_str, chirp_row>>
    /\ UNCHANGED <<raised, convertVars, raw_input_lines, optionVars>>
    /\ UNCHANGED mainVars

C2rtOffset ==
    /\ call = "c2rt_tx_frequency"
    /\ call' = "c2rt_offset"
    /\ ret' = c2rt_offset(chirp_row.Offset)
    /\ rt_row' = [Receive |-> rt_row.Receive, Transmit |-> rt_row.Transmit,
                  Direction |-> rt_row.Direction, Offset |-> ret']
    /\ UNCHANGED <<g_show_warnings, g_default_ctcss_tone, stderr, tone_str,
                   tx_tone_str, rx_tone_str, chirp_row>>
    /\ UNCHANGED <<raised, convertVars, raw_input_lines, optionVars>>
    /\ UNCHANGED mainVars

NextC2rt == C2rtRxFrequency \/ C2rtTxFrequency \/ C2rtOffset

SpecC2rt == InitC2rt /\ [][NextC2rt]_vars

-----------------------------------------------------------------------------
(* SpecComments: truncate_comments is called with a comment and a          *)
(* max_size.                                                               *)

\* The comment of n characters: '1234567890123...'.
CommentOfLen(n) == [i \in 1..n |-> DigitChars[(i % 10) + 1]]
Comments == {CommentOfLen(n) : n \in 0..MaxCommentLen}
Sizes == (0 - SizeMargin)..(60 + SizeMargin)

InitComments ==
    /\ g_show_warnings = FALSE
    /\ g_default_ctcss_tone = PyFloat(DEFAULT_CTCSS_TONE)
    /\ stderr = <<>>
    /\ call = ""
    /\ tone_str = PyNone
    /\ tx_tone_str = PyNone
    /\ rx_tone_str = PyNone
    /\ ret = PyNone
    /\ chirp_row \in [Comment : Comments]
    /\ rt_row = NoRow
    /\ raised = ""
    /\ arg_max_size \in Sizes
    /\ input_file = <<>>
    /\ raw_chirp_content = <<>>
    /\ RT_content = <<>>
    /\ output_file = <<>>
    /\ raw_input_lines = <<>>
    /\ NoOptions
    /\ NoMain

TruncateComments ==
    /\ call = ""
    /\ call' = "truncate_comments"
    /\ ret' = truncate_comments(chirp_row.Comment, arg_max_size).ret
    /\ raised' = truncate_comments(chirp_row.Comment, arg_max_size).raised
    /\ UNCHANGED <<g_show_warnings, g_default_ctcss_tone, stderr, tone_str,
                   tx_tone_str, rx_tone_str, chirp_row, rt_row>>
    /\ UNCHANGED <<convertVars, raw_input_lines, optionVars>>
    /\ UNCHANGED mainVars

NextComments == TruncateComments

SpecComments == InitComments /\ [][NextComments]_vars

-----------------------------------------------------------------------------
(* SpecConvert: convert reads a CHIRP file, maps its rows and writes the   *)
(* RT Systems file.                                                        *)

\* A line of a CHIRP file, in the order of CHIRP_headers.
ChirpLine(location, name, frequency, duplex, offset, tone, rtone, dtcs, comment) ==
    <<location, name, frequency, duplex, offset, tone, rtone,
      <<"8", "8", ".", "5">>, dtcs, "NN", "FM", <<"5", ".", "0", "0">>, "",
      comment, "", "", "">>

Locations == {NatToDigits(n) : n \in 1..MaxLocation}

\* A simplex channel, a repeater with tone squelch and a repeater with a
\* digital squelch code, at each location.
ChirpLines ==
    UNION {{ChirpLine(l, "SIMPLEX", FormatFixed(146520000, 6), "",
                      FormatFixed(0, 6), "", <<"8", "8", ".", "5">>, "023",
                      CommentOfLen(0)),
            ChirpLine(l, "TSQL", FormatFixed(147120000, 6), "+",
                      FormatFixed(600000, 6), "TSQL", <<"1", "0", "0", ".", "0">>,
                      "023", CommentOfLen(52)),
            ChirpLine(l, "DTCS", FormatFixed(444 * Scale, 6), "-",
                      FormatFixed(5 * Scale, 6), "DTCS", <<"8", "8", ".", "5">>,
                      "047", CommentOfLen(50))} : l \in Locations}

ChirpFiles == {<<CHIRP_headers>> \o lines : lines \in SeqsUpTo(ChirpLines, 0, MaxRows)}

InitConvert ==
    /\ g_show_warnings = FALSE
    /\ g_default_ctcss_tone = PyFloat(DEFAULT_CTCSS_TONE)
    /\ stderr = <<>>
    /\ call = ""
    /\ tone_str = PyNone
    /\ tx_tone_str = PyNone
    /\ rx_tone_str = PyNone
    /\ ret = 0
    /\ chirp_row = NoRow
    /\ rt_row = NoRow
    /\ raised = ""
    /\ arg_max_size = 50
    /\ input_file \in ChirpFiles
    /\ raw_chirp_content = <<>>
    /\ RT_content = <<>>
    /\ output_file = <<>>
    /\ raw_input_lines = <<>>
    /\ NoOptions
    /\ NoMain

ImportCHIRP ==
    /\ call = ""
    /\ call' = "import_CHIRP"
    /\ raw_chirp_content' = import_CHIRP(input_file)
    /\ UNCHANGED <<g_show_warnings, g_default_ctcss_tone, stderr, tone_str,
                   tx_tone_str, rx_tone_str, ret, chirp_row, rt_row, raised>>
    /\ UNCHANGED <<arg_max_size, input_file, RT_content, output_file,
                   raw_input_lines, optionVars>>
    /\ UNCHANGED mainVars

Chirp2rt ==
    /\ call = "import_CHIRP"
    /\ call' = "chirp2rt"
    /\ RT_content' = chirp2rt(raw_chirp_content)
    /\ UNCHANGED <<g_show_warnings, g_default_ctcss_tone, stderr, tone_str,
                   tx_tone_str, rx_tone_str, ret, chirp_row, rt_row, raised>>
    /\ UNCHANGED <<arg_max_size, input_file, raw_chirp_content, output_file,
                   raw_input_lines, optionVars>>
    /\ UNCHANGED mainVars

ExportRT ==
    /\ call = "chirp2rt"
    /\ call' = "export_RT"
    /\ output_file' = export_RT(RT_content).file
    /\ ret' = export_RT(RT_content).ret
    /\ UNCHANGED <<g_show_warnings, g_default_ctcss_tone, stderr, tone_str,
                   tx_tone_str, rx_tone_str, chirp_row, rt_row, raised>>
    /\ UNCHANGED <<arg_max_size, input_file, raw_chirp_content, RT_content,
                   raw_input_lines, optionVars>>
    /\ UNCHANGED mainVars

NextConvert == ImportCHIRP \/ Chirp2rt \/ ExportRT

SpecConvert == InitConvert /\ [][NextConvert]_vars

-----------------------------------------------------------------------------
(* SpecIcs: ics_parse is given the lines of an ICS-217A file.              *)

\* A line of columns: channel, name, receive frequency, transmit frequency,
\* offset, a column not read, the two tones, the comment, the changes.
IcsLine(location, name, frequency, offset, tx_tone, rx_tone, comment) ==
    Join(<<location, name, frequency, <<>>, offset, <<>>, tx_tone, rx_tone,
           comment, <<"\n">>>>)

\* Channels well formed, blank lines, short lines, and lines whose frequency
\* or offset is not a number; the last has an eleventh column.
IcsLines ==
    {IcsLine(<<"1">>, <<"A">>, FormatFixed(146520000, 6), <<>>, <<>>, <<>>, <<>>),
     IcsLine(<<" ", "2">>, <<"B">>, <<"1", "4", "7", ".", "1", "2">>,
             <<"0", ".", "6">>, <<"1", "0", "0", ".", "0">>, <<>>, <<" ", "o", "k">>),
     IcsLine(<<"3">>, <<"C">>, FormatFixed(146520000, 6), <<"-", "0", ".", "6">>,
             <<"0", "2", "3">>, <<>>, <<>>),
     IcsLine(<<"4">>, <<"D">>, FormatFixed(146520000, 6), <<"0">>, <<>>, <<>>, <<>>),
     IcsLine(<<"5">>, <<" ">>, FormatFixed(146520000, 6), <<>>, <<>>, <<>>, <<>>),
     IcsLine(<<>>, <<>>, <<>>, <<>>, <<>>, <<>>, <<>>),
     Join(<<<<"6">>, <<"E">>, FormatFixed(146520000, 6), <<>>, <<>>, <<>>, <<>>,
            <<>>, <<"\n">>>>),
     <<"\n">>,
     IcsLine(<<"7">>, <<"F">>, <<"x">>, <<>>, <<>>, <<>>, <<>>),
     IcsLine(<<"8">>, <<"G">>, <<>>, <<>>, <<>>, <<>>, <<>>),
     IcsLine(<<"9">>, <<"H">>, FormatFixed(146520000, 6), <<"x">>, <<>>, <<>>, <<>>),
     Join(<<<<"1", "0">>, <<"I">>, FormatFixed(146520000, 6), <<>>, <<>>, <<>>,
            <<>>, <<>>, <<>>, <<>>, <<"\n">>>>)}

InitIcs ==
    /\ g_show_warnings \in BOOLEAN
    /\ g_default_ctcss_tone = PyFloat(DEFAULT_CTCSS_TONE)
    /\ stderr = <<>>
    /\ call = ""
    /\ tone_str = PyNone
    /\ tx_tone_str = PyNone
    /\ rx_tone_str = PyNone
    /\ ret = <<>>
    /\ chirp_row = NoRow
    /\ rt_row = NoRow
    /\ raised = ""
    /\ NoConvert
    /\ raw_input_lines \in SeqsUpTo(IcsLines, 0, MaxLines)
    /\ NoOptions
    /\ NoMain

IcsParse ==
    /\ call = ""
    /\ call' = "ics_parse"
    /\ \E r \in {ics_parse(raw_input_lines)} :
        /\ raised' = r.raised
        /\ ret' = IF r.raised = "" THEN r.ret ELSE ret
        /\ stderr' = warning(r.warnings)
    /\ UNCHANGED <<g_show_warnings, g_default_ctcss_tone, tone_str, tx_tone_str,
                   rx_tone_str, chirp_row, rt_row>>
    /\ UNCHANGED <<convertVars, raw_input_lines, optionVars>>
    /\ UNCHANGED mainVars

NextIcs == IcsParse

SpecIcs == InitIcs /\ [][NextIcs]_vars

-----------------------------------------------------------------------------
(* SpecOptions: process_options of i2c.py or of website_table_gen.py       *)
(* handles the options of a command line, one at a time.                   *)

SkipValues ==
    {<<"5">>, <<"9">>, <<"0">>, <<"1", "0">>, <<"-", "1">>, <<"x">>}

I2cOptions ==
    {<<"-f", a>> : a \in SkipValues}
        \cup {<<"--skip-first-rows", <<" ", "3">>>>, <<"-c", <<>>>>, <<"-v", <<>>>>,
              <<"-w", <<>>>>}
        \cup {<<"-t", a.chars>> : a \in ToneOptions}

WtgOptions ==
    {<<"-f", a>> : a \in SkipValues}
        \cup {<<"--skip-first-rows", <<" ", "3">>>>, <<"-h", <<>>>>, <<"-v", <<>>>>,
              <<"-w", <<>>>>}

InitOptions ==
    /\ g_show_warnings = FALSE
    /\ g_default_ctcss_tone = PyFloat(DEFAULT_CTCSS_TONE)
    /\ stderr = <<>>
    /\ call = ""
    /\ tone_str = PyNone
    /\ tx_tone_str = PyNone
    /\ rx_tone_str = PyNone
    /\ ret = FALSE
    /\ chirp_row = NoRow
    /\ rt_row = NoRow
    /\ raised = ""
    /\ NoConvert
    /\ raw_input_lines = <<>>
    /\ \/ script = "i2c.py" /\ opts \in SeqsUpTo(I2cOptions, 0, MaxOpts)
       \/ script = "website_table_gen.py" /\ opts \in SeqsUpTo(WtgOptions, 0, MaxOpts)
    /\ handled = 0
    /\ g_skip_rows = NUMBER_ROWS_TO_IGNORE_IN_SRC
    /\ g_verbose = FALSE
    /\ g_print_help_and_exit = FALSE
    /\ NoMain

\* i2c.py: one iteration of the loop of process_options; ret is
\* turn_on_control_channel.
I2cOption ==
    /\ script = "i2c.py"
    /\ handled < Len(opts)
    /\ call' = "process_options"
    /\ handled' = handled + 1
    /\ LET o == opts[handled + 1][1]
           a == opts[handled + 1][2]
       IN  /\ g_skip_rows' = IF o \in {"-f", "--skip-first-rows"}
                                THEN i2c_skip_first_rows(a).g_skip_rows
                                ELSE g_skip_rows
           /\ ret' = IF o \in {"-c", "--control_ch"} THEN TRUE ELSE ret
           /\ g_verbose' = IF o \in {"-v", "--verbose"} THEN TRUE ELSE g_verbose
           /\ g_show_warnings' = IF o \in {"-w", "--show-warnings"}
                                    THEN TRUE ELSE g_show_warnings
           /\ g_default_ctcss_tone' = IF o \in {"-t", "--tone"}
                                         THEN default_tone_of(parse_tone(PyStr(a)))
                                         ELSE g_default_ctcss_tone
           /\ stderr' = IF o \in {"-f", "--skip-first-rows"}
                            THEN warning(i2c_skip_first_rows(a).warnings)
                         ELSE IF o \in {"-t", "--tone"}
                            THEN tone_option_stderr(parse_tone(PyStr(a)))
                         ELSE stderr
    /\ UNCHANGED <<tone_str, tx_tone_str, rx_tone_str, chirp_row, rt_row, raised,
                   convertVars, raw_input_lines, script, opts,
                   g_print_help_and_exit>>
    /\ UNCHANGED mainVars

\* website_table_gen.py: one iteration of the loop of process_options.  The
\* -h branch assigns g_print_help_and_exit without declaring it global: the
\* global is not changed.
WtgOption ==
    /\ script = "website_table_gen.py"
    /\ handled < Len(opts)
    /\ call' = "process_options"
    /\ handled' = handled + 1
    /\ LET o == opts[handled + 1][1]
           a == opts[handled + 1][2]
       IN  /\ g_skip_rows' = IF o \in {"-f", "--skip-first-rows"}
                                THEN wtg_skip_first_rows(a).g_skip_rows
                                ELSE g_skip_rows
           /\ g_verbose' = IF o \in {"-v", "--verbose"} THEN TRUE ELSE g_verbose
           /\ g_show_warnings' = IF o \in {"-w", "--show-warnings"}
                                    THEN TRUE ELSE g_show_warnings
           /\ stderr' = IF o \in {"-f", "--skip-first-rows"}
                            THEN warning(wtg_skip_first_rows(a).warnings)
                         ELSE stderr
    /\ UNCHANGED <<g_default_ctcss_tone, tone_str, tx_tone_str, rx_tone_str, ret,
                   chirp_row, rt_row, raised, convertVars, raw_input_lines,
                   script, opts, g_print_help_and_exit>>
    /\ UNCHANGED mainVars

NextOptions == I2cOption \/ WtgOption

SpecOptions == InitOptions /\ [][NextOptions]_vars

-----------------------------------------------------------------------------
(* SpecMain: i2c.py or website_table_gen.py runs as a programme, from the  *)
(* options getopt returned to its exit.                                    *)

\* The file names left on the command line: none to MaxArgs of them.
FileArgs ==
    {SubSeq(<<"in.csv", "out.csv", "extra.csv", "more.csv">>, 1, n) : n \in 0..MaxArgs}

I2cMainOptions == {<<"-c", <<>>>>, <<"-w", <<>>>>, <<"-f", <<"1">>>>}

WtgMainOptions ==
    {<<"-h", <<>>>>, <<"--help", <<>>>>, <<"-w", <<>>>>, <<"-f", <<"1">>>>}

File(lines) == [found |-> TRUE, lines |-> lines]
NoFile == [found |-> FALSE, lines |-> <<>>]

\* No token file, an empty one, one of a comment, a blank line and a token,
\* one whose first line is no token, and one of a blank line only.
MainVersionFiles ==
    {NoFile,
     File(<<>>),
     File(<<<<"#", " ", "p", "l", "a", "n", "\n">>, <<" ", "\n">>,
            <<"Y", "E", "L", "L", "O", "W", "\n">>>>),
     File(<<<<"n", "o", " ", "t", "o", "k", "e", "n", "\n">>>>),
     File(<<<<"\n">>>>)}

\* ICS-217A lines: a simplex channel, a repeater with a tone, a repeater
\* with a digital code, a line without a name, a channel whose Location is
\* no number and one whose frequency is no number.
GoodIcsLines ==
    {IcsLine(<<"1">>, <<"A">>, FormatFixed(146520000, 6), <<>>, <<>>, <<>>, <<>>),
     IcsLine(<<" ", "2">>, <<"B">>, <<"1", "4", "7", ".", "1", "2">>,
             <<"0", ".", "6">>, <<"1", "0", "0", ".", "0">>, <<>>, <<" ", "o", "k">>),
     IcsLine(<<"3">>, <<"C">>, FormatFixed(444 * Scale, 6), <<"-", "5">>,
             <<"0", "2", "3">>, <<>>, <<>>),
     IcsLine(<<"5">>, <<" ">>, FormatFixed(146520000, 6), <<>>, <<>>, <<>>, <<>>)}

MainIcsLines ==
    GoodIcsLines
        \cup {IcsLine(<<"U", "1">>, <<"D">>, FormatFixed(146520000, 6), <<>>, <<>>,
                      <<>>, <<>>),
              IcsLine(<<"7">>, <<"F">>, <<"x">>, <<>>, <<>>, <<>>, <<>>)}

MainIcsFiles == SeqsUpTo(MainIcsLines, 0, MaxMainLines)

\* The variables no step of __main__ after process_options changes.
mainFixed ==
    <<g_show_warnings, g_default_ctcss_tone, tone_str, tx_tone_str, rx_tone_str,
      ret, chirp_row, rt_row, arg_max_size, input_file, raw_chirp_content,
      RT_content, optionVars, args, version_file>>

InitI2c ==
    /\ g_show_warnings = FALSE
    /\ g_default_ctcss_tone = PyFloat(DEFAULT_CTCSS_TONE)
    /\ stderr = <<>>
    /\ call = ""
    /\ tone_str = PyNone
    /\ tx_tone_str = PyNone
    /\ rx_tone_str = PyNone
    /\ ret = FALSE
    /\ chirp_row = NoRow
    /\ rt_row = NoRow
    /\ raised = ""
    /\ arg_max_size = 0
    /\ input_file \in MainIcsFiles
    /\ raw_chirp_content = <<>>
    /\ RT_content = <<>>
    /\ output_file = <<>>
    /\ raw_input_lines = <<>>
    /\ script = "i2c.py"
    /\ opts \in SeqsUpTo(I2cMainOptions, 0, MaxMainOpts)
    /\ handled = 0
    /\ g_skip_rows = NUMBER_ROWS_TO_IGNORE_IN_SRC
    /\ g_verbose = FALSE
    /\ g_print_help_and_exit = FALSE
    /\ pc = "process_options"
    /\ args \in FileArgs
    /\ use_control_channel = FALSE
    /\ version_file \in MainVersionFiles
    /\ g_control_channel = PyNone
    /\ cooked = <<>>
    /\ raw_rows = <<>>
    /\ cooked_rows = <<>>
    /\ opened = <<>>
    /\ stdout = <<>>
    /\ exit_code = <<>>

\* The script ends: through sys.exit(status), or with 1 after an exception
\* nothing caught; otherwise it goes on with the statement next.
After(r, next) ==
    /\ raised' = r.raised
    /\ exit_code' = IF r.raised # "" THEN <<1>> ELSE r.exit
    /\ pc' = IF r.raised # "" \/ r.exit # <<>> THEN "exit" ELSE next

\* use_control_channel, args = process_options(), when its loop is over, and
\* the try of get_filenames: NumberOfFilesError is caught, sys.exit(-1) gives
\* the exit status 255.
I2cGetFilenames ==
    /\ script = "i2c.py"
    /\ pc = "process_options"
    /\ handled = Len(opts)
    /\ call' = "get_filenames"
    /\ use_control_channel' = ret
    /\ \E r \in {get_filenames(args)} :
        /\ stdout' = stdout \o r.printed
        /\ exit_code' = IF r.raised = "NumberOfFilesError" THEN <<255>> ELSE <<>>
        /\ pc' = IF r.raised = "NumberOfFilesError" THEN "exit"
                 ELSE "load_version_channel_name"
    /\ UNCHANGED <<mainFixed, stderr, raised, output_file, raw_input_lines,
                   g_control_channel, cooked, raw_rows, cooked_rows, opened>>

I2cLoadVersionChannelName ==
    /\ pc = "load_version_channel_name"
    /\ call' = "load_version_channel_name"
    /\ opened' = IF version_file.found
                    THEN Append(opened, <<"r", VERSION_TOKEN_FILE>>) ELSE opened
    /\ \E r \in {load_version_channel_name(version_file)} :
        /\ g_control_channel' = r.ret
        /\ stderr' = warning(r.warnings)
        /\ After(r, "read_ICS_217A")
    /\ UNCHANGED <<mainFixed, output_file, raw_input_lines, use_control_channel,
                   cooked, raw_rows, cooked_rows, stdout>>

I2cReadICS217A ==
    /\ pc = "read_ICS_217A"
    /\ call' = "read_ICS_217A"
    /\ opened' = Append(opened, <<"r", args[1]>>)
    /\ raw_input_lines' = read_ICS_217A(input_file)
    /\ pc' = "ics_parse"
    /\ UNCHANGED <<mainFixed, stderr, raised, output_file, use_control_channel,
                   g_control_channel, cooked, raw_rows, cooked_rows, stdout,
                   exit_code>>

I2cIcsParse ==
    /\ pc = "ics_parse"
    /\ call' = "ics_parse"
    /\ \E r \in {ics_parse(raw_input_lines)} :
        /\ cooked' = IF r.raised = "" THEN r.ret ELSE cooked
        /\ stderr' = warning(r.warnings)
        /\ raised' = r.raised
        /\ exit_code' = IF r.raised # "" THEN <<1>> ELSE <<>>
        /\ pc' = IF r.raised # "" THEN "exit" ELSE "generate_output"
    /\ UNCHANGED <<mainFixed, output_file, raw_input_lines, use_control_channel,
                   g_control_channel, raw_rows, cooked_rows, opened, stdout>>

\* The last statement: the script ends with 0 when generate_output returns.
I2cGenerateOutput ==
    /\ pc = "generate_output"
    /\ call' = "generate_output"
    /\ opened' = Append(opened, <<"w", args[2]>>)
    /\ \E r \in {generate_output(cooked, use_control_channel, g_control_channel)} :
        /\ output_file' = r.ret
        /\ raised' = r.raised
        /\ exit_code' = IF r.raised # "" THEN <<1>> ELSE <<0>>
        /\ pc' = "exit"
    /\ UNCHANGED <<mainFixed, stderr, raw_input_lines, use_control_channel,
                   g_control_channel, cooked, raw_rows, cooked_rows, stdout>>

\* CHIRP files: what i2c.py writes for the files of good lines, with and
\* without the sentinel rows of the token YELLOW, and a file whose row is
\* short.
WtgInputFiles ==
    {generate_output(ics_parse(lines).ret, c,
                     PyStr(CARES_CONTROL_CHANNEL_START
                            \o <<"Y", "E", "L", "L", "O", "W">>
                            \o CARES_CONTROL_CHANNEL_END)).ret :
        lines \in SeqsUpTo(GoodIcsLines, 0, MaxMainLines), c \in BOOLEAN}
    \cup {<<CHIRP_CSV_HEADER_FIELDS \o <<"\n">>, <<"1", ",", "A", "\n">>>>}

InitWtg ==
    /\ g_show_warnings = FALSE
    /\ g_default_ctcss_tone = PyFloat(DEFAULT_CTCSS_TONE)
    /\ stderr = <<>>
    /\ call = ""
    /\ tone_str = PyNone
    /\ tx_tone_str = PyNone
    /\ rx_tone_str = PyNone
    /\ ret = FALSE
    /\ chirp_row = NoRow
    /\ rt_row = NoRow
    /\ raised = ""
    /\ arg_max_size = 0
    /\ g_control_channel = PyNone
    /\ input_file \in WtgInputFiles
    /\ raw_chirp_content = <<>>
    /\ RT_content = <<>>
    /\ output_file = <<>>
    /\ raw_input_lines = <<>>
    /\ script = "website_table_gen.py"
    /\ opts \in SeqsUpTo(WtgMainOptions, 0, MaxMainOpts)
    /\ handled = 0
    /\ g_skip_rows = DEFAULT_NUM_ROWS_TO_SKIP
    /\ g_verbose = FALSE
    /\ g_print_help_and_exit = FALSE
    /\ pc = "process_options"
    /\ args \in FileArgs
    /\ use_control_channel = FALSE
    /\ version_file = NoFile
    /\ cooked = <<>>
    /\ raw_rows = <<>>
    /\ cooked_rows = <<>>
    /\ opened = <<>>
    /\ stdout = <<>>
    /\ exit_code = <<>>

InitMain == InitI2c \/ InitWtg

\* possible_files = process_options(), when its loop is over, and the if of
\* __main__.  Its first branch names print_help_message without calling it;
\* its last branch warns and prints the usage, and is the end of the script,
\* which ends with 0.
WtgFiles ==
    /\ script = "website_table_gen.py"
    /\ pc = "process_options"
    /\ handled = Len(opts)
    /\ call' = "__main__"
    /\ stderr' = IF ~g_print_help_and_exit /\ Len(args) # 2
                    THEN warning(<<"Too few filenames specified on the command line">>)
                    ELSE stderr
    /\ exit_code' = IF ~g_print_help_and_exit /\ Len(args) = 2 THEN <<>> ELSE <<0>>
    /\ pc' = IF ~g_print_help_and_exit /\ Len(args) = 2 THEN "read_raw_input"
             ELSE "exit"
    /\ stdout' = IF ~g_print_help_and_exit /\ Len(args) # 2
                    THEN stdout \o wtg_usage ELSE stdout
    /\ UNCHANGED <<mainFixed, raised, output_file, raw_input_lines,
                   use_control_channel, g_control_channel, cooked, raw_rows,
                   cooked_rows, opened>>

WtgReadRawInput ==
    /\ pc = "read_raw_input"
    /\ call' = "read_raw_input"
    /\ opened' = Append(opened, <<"r", args[1]>>)
    /\ \E r \in {read_raw_input(input_file)} :
        /\ raw_rows' = IF r.raised = "" THEN r.ret ELSE raw_rows
        /\ raised' = r.raised
        /\ exit_code' = IF r.raised # "" THEN <<1>> ELSE <<>>
        /\ pc' = IF r.raised # "" THEN "exit" ELSE "process_rows"
    /\ UNCHANGED <<mainFixed, stderr, output_file, raw_input_lines,
                   use_control_channel, g_control_channel, cooked, cooked_rows,
                   stdout>>

WtgProcessRows ==
    /\ pc = "process_rows"
    /\ call' = "process_rows"
    /\ \E r \in {process_rows(raw_rows)} :
        /\ cooked_rows' = IF r.raised = "" THEN r.ret ELSE cooked_rows
        /\ stderr' = warning(r.warnings)
        /\ raised' = r.raised
        /\ exit_code' = IF r.raised # "" THEN <<1>> ELSE <<>>
        /\ pc' = IF r.raised # "" THEN "exit" ELSE "wtg_generate_output"
    /\ UNCHANGED <<mainFixed, output_file, raw_input_lines, use_control_channel,
                   g_control_channel, cooked, raw_rows, opened, stdout>>

WtgGenerateOutput ==
    /\ pc = "wtg_generate_output"
    /\ call' = "generate_output"
    /\ opened' = Append(opened, <<"w", args[2]>>)
    /\ output_file' = wtg_generate_output(cooked_rows)
    /\ exit_code' = <<0>>
    /\ pc' = "exit"
    /\ UNCHANGED <<mainFixed, stderr, raised, raw_input_lines,
                   use_control_channel, g_control_channel, cooked, raw_rows,
                   cooked_rows, stdout>>

NextMain ==
    \/ I2cOption
    \/ I2cGetFilenames
    \/ I2cLoadVersionChannelName
    \/ I2cReadICS217A
    \/ I2cIcsParse
    \/ I2cGenerateOutput
    \/ WtgOption
    \/ WtgFiles
    \/ WtgReadRawInput
    \/ WtgProcessRows
    \/ WtgGenerateOutput

SpecMain == InitMain /\ [][NextMain]_vars

-----------------------------------------------------------------------------
(* SpecVersion: i2c.py is about to call load_version_channel_name, with    *)
(* any token file of at most MaxTokenLines lines.                          *)

\* Blank lines, comments, tokens, and lines that are none of them: too
\* long, of two words, with a character that is no word character.
TokenLines ==
    {<<"\n">>,
     <<" ", "\n">>,
     <<"#", " ", "p", "l", "a", "n", "\n">>,
     <<" ", "#", "\n">>,
     <<"Y", "E", "L", "L", "O", "W", "\n">>,
     <<" ", "V", "1", "_", "a", " ", "\n">>,
     <<"Y", "E", "L", "L", "O", "W", "7", "\n">>,
     <<"n", "o", " ", "t", "o", "k", "e", "n", "\n">>,
     <<"R", "-", "1", "\n">>}

\* The lines of a file end with a line end, but for the last, which may.
VersionFiles ==
    {NoFile}
        \cup {File(lines \o last) :
                lines \in SeqsUpTo(TokenLines, 0, MaxTokenLines),
                last \in {<<>>, <<<<"G", "R", "E", "E", "N">>>>, <<<<" ", "#">>>>}}

InitVersion ==
    /\ g_show_warnings \in BOOLEAN
    /\ g_default_ctcss_tone = PyFloat(DEFAULT_CTCSS_TONE)
    /\ stderr = <<>>
    /\ call = "get_filenames"
    /\ tone_str = PyNone
    /\ tx_tone_str = PyNone
    /\ rx_tone_str = PyNone
    /\ ret = FALSE
    /\ chirp_row = NoRow
    /\ rt_row = NoRow
    /\ raised = ""
    /\ NoConvert
    /\ raw_input_lines = <<>>
    /\ script = "i2c.py"
    /\ opts = IF g_show_warnings THEN <<<<"-w", <<>>>>>> ELSE <<>>
    /\ handled = Len(opts)
    /\ g_skip_rows = NUMBER_ROWS_TO_IGNORE_IN_SRC
    /\ g_verbose = FALSE
    /\ g_print_help_and_exit = FALSE
    /\ pc = "load_version_channel_name"
    /\ args = <<"in.csv", "out.csv">>
    /\ use_control_channel = FALSE
    /\ version_file \in VersionFiles
    /\ g_control_channel = PyNone
    /\ cooked = <<>>
    /\ raw_rows = <<>>
    /\ cooked_rows = <<>>
    /\ opened = <<>>
    /\ stdout = <<>>
    /\ exit_code = <<>>

NextVersion == I2cLoadVersionChannelName

SpecVersion == InitVersion /\ [][NextVersion]_vars

-----------------------------------------------------------------------------
(* The claims about the tone classifiers, checked under Spec.              *)

IsStr(v) == v.kind = "str"
Token(s) == tone_str = PyStr(s)

\* s with at most MaxPad blanks before it and after it.
Paddings(s) == {Blanks(l) \o s \o Blanks(r) : l \in 0..MaxPad, r \in 0..MaxPad}

\* The pairs <<v, s>>: s a decimal text, padded or not, of the tone v of a table.
TextsOf(tones) == UNION {{v} \X Paddings(str(v)) : v \in tones}
StandardTexts == TextsOf(STANDARD_CTCSS_TONES)
ExtendedTexts == TextsOf(EXTENDED_CTCSS_TONES)

\* C1: parse_tone of the decimal text of a standard CTCSS tone v, with or
\* without whitespace around it, returns TONE_TYPE_CTCSS and a value (a
\* string) that is numerically v.
C1_StandardToneIsCtcss ==
    call = "parse_tone" =>
        \A p \in StandardTexts :
            Token(p[2]) =>
                /\ ret[1] = TONE_TYPE_CTCSS
                /\ IsStr(ret[2]) /\ IsDecimal(ret[2].chars)
                /\ float(ret[2].chars) = p[1]

C1_Witness ==
    /\ call = "parse_tone"
    /\ Token(<<" ", "6", "7", ".", "0", " ">>)
    /\ ret = <<TONE_TYPE_CTCSS, PyStr(<<"6", "7", ".", "0">>)>>

\* C2 as stated: the result returned for an extended CTCSS tone is told apart
\* from that of a standard tone, by its classification or by a flag in it.
C2_ExtendedFlaggedInResult ==
    call \in {"is_ctcss_tone", "parse_tone"} =>
        \A p \in ExtendedTexts :
            Token(p[2]) => (ret[1] # TONE_TYPE_CTCSS \/ Len(ret) > 2)

\* C2 as amended: an extended CTCSS tone returns exactly what a standard tone
\* returns, the pair (TONE_TYPE_CTCSS, text of the value); it is told apart
\* only by the warning written to stderr, and only when warnings are shown.
C2_ExtendedWarnedOnStderr ==
    call \in {"is_ctcss_tone", "parse_tone"} =>
        \A p \in ExtendedTexts :
            Token(p[2]) =>
                /\ ret = <<TONE_TYPE_CTCSS, PyStr(str(p[1]))>>
                /\ stderr = IF g_show_warnings
                            THEN <<"Extended CTCSS tone encountered">> ELSE <<>>

C2_Witness ==
    /\ call = "is_ctcss_tone"
    /\ Token(<<"1", "6", "5", ".", "5">>)
    /\ ~g_show_warnings
    /\ ret[1] = TONE_TYPE_CTCSS
    /\ stderr = <<>>

\* The tokens C3 names for the code c: c, 'D' c, 'd' c and, for a code that
\* starts with '0', its last two characters.
CodeForms(c) ==
    {c, <<"D">> \o c, <<"d">> \o c} \cup (IF c[1] = "0" THEN {Tail(c)} ELSE {})

\* C3: every form of every code of DCS_TONES is classified DCS by parse_tone,
\* and none of them is taken for a CTCSS tone by is_ctcss_tone.
AllCodeForms == UNION {CodeForms(c) : c \in DCS_TONES}

C3_CodeFormsAreDcs ==
    (IsStr(tone_str) /\ tone_str.chars \in AllCodeForms) =>
        /\ call = "parse_tone" => ret[1] = TONE_TYPE_DCS
        /\ call = "is_ctcss_tone" => ret[1] = TONE_TYPE_UNRECOGNISED

C3_Witness ==
    /\ call = "parse_tone"
    /\ Token(<<"d", "7", "5", "4">>)
    /\ ret[1] = TONE_TYPE_DCS

\* C4 as stated: a two-character token that is_dcs_tone accepts is returned
\* left-padded with '0', a member of DCS_TONES.
C4_TwoCharsReturnedPadded ==
    (/\ call = "is_dcs_tone"
     /\ IsStr(tone_str)
     /\ Len(strip(tone_str.chars)) = 2
     /\ ret[1] = TONE_TYPE_DCS) =>
        /\ ret[2] = PyStr(<<"0">> \o strip(tone_str.chars))
        /\ ret[2].chars \in DCS_TONES

\* C5 as stated: parse_tone returns the token itself with the unrecognised
\* classification.
C5_UnrecognisedReturnsToken ==
    (call = "parse_tone" /\ ret[1] = TONE_TYPE_UNRECOGNISED) => ret[2] = tone_str

\* C5 as amended: with the unrecognised classification parse_tone returns
\* None, whatever the token.
C5_UnrecognisedReturnsNone ==
    (call = "parse_tone" /\ ret[1] = TONE_TYPE_UNRECOGNISED) => ret[2] = PyNone

C5_Witness ==
    /\ call = "parse_tone"
    /\ Token(<<"9", "9", ".", "9">>)
    /\ ret = <<TONE_TYPE_UNRECOGNISED, PyNone>>

\* parse_tone with the two checks in the other order.
ParseToneDcsFirst(c, d) ==
    IF d.ret[1] = TONE_TYPE_DCS THEN d.ret
    ELSE IF c.ret[1] = TONE_TYPE_CTCSS THEN c.ret
    ELSE <<TONE_TYPE_UNRECOGNISED, PyNone>>

\* C6: no token is accepted by is_ctcss_tone and by is_dcs_tone, and
\* parse_tone returns what it would return with the DCS check tried first.
C6_NoTokenIsBoth ==
    /\ (call = "is_ctcss_tone" /\ ret[1] = TONE_TYPE_CTCSS) =>
            is_dcs_tone(tone_str).ret[1] = TONE_TYPE_UNRECOGNISED
    /\ (call = "is_dcs_tone" /\ ret[1] = TONE_TYPE_DCS) =>
            is_ctcss_tone(tone_str).ret[1] = TONE_TYPE_UNRECOGNISED
    /\ call = "parse_tone" =>
            ret = ParseToneDcsFirst(is_ctcss_tone(tone_str), is_dcs_tone(tone_str))

\* A token both patterns match: CTCSS 123.0 written without its decimal.
C6_Witness ==
    /\ call = "is_ctcss_tone"
    /\ Token(<<"1", "2", "3">>)
    /\ CTCSS_TONE_REGEX(tone_str.chars) /\ DCS_TONE_REGEX(tone_str.chars)
    /\ ret[1] = TONE_TYPE_CTCSS

-----------------------------------------------------------------------------
(* The claims about parse_tones, checked under SpecTones.                  *)

TxType == parse_tone(tx_tone_str).ret[1]
RxType == parse_tone(rx_tone_str).ret[1]
TxValue == parse_tone(tx_tone_str).ret[2]
RxValue == parse_tone(rx_tone_str).ret[2]

\* C7: the mode is TSQL exactly when both tokens are CTCSS, Tone exactly when
\* only the transmit token is, DTCS exactly when the transmit token is DCS
\* and '' otherwise.
C7_ModeFollowsTransmit ==
    call = "parse_tones" =>
        /\ ret[1] = TONE_SQUELCH_MODE <=>
              (TxType = TONE_TYPE_CTCSS /\ RxType = TONE_TYPE_CTCSS)
        /\ ret[1] = BASIC_TONE_MODE <=>
              (TxType = TONE_TYPE_CTCSS /\ RxType # TONE_TYPE_CTCSS)
        /\ ret[1] = DCS_TONE_MODE <=> TxType = TONE_TYPE_DCS
        /\ ret[1] = DEFAULT_TONE_MODE <=> TxType = TONE_TYPE_UNRECOGNISED

C7_Witness ==
    /\ call = "parse_tones"
    /\ TxType = TONE_TYPE_UNRECOGNISED
    /\ RxType = TONE_TYPE_DCS
    /\ ret[1] = DEFAULT_TONE_MODE

\* C8 as stated: with a DCS transmit token, parse_tones returns its code as
\* the transmit DCS code, and as the receive DCS code the receive token's
\* code when that is DCS too, '023' otherwise.
C8_DcsCodeReturned ==
    (call = "parse_tones" /\ TxType = TONE_TYPE_DCS) =>
        /\ ret[4] = TxValue
        /\ ret[5] = IF RxType = TONE_TYPE_DCS
                    THEN RxValue ELSE PyStr(DEFAULT_DCS_TONE_CODE)

\* C9: the transmit CTCSS value is the transmit token's tone when that is
\* CTCSS, the receive CTCSS value is the receive token's tone in TSQL mode
\* only, and otherwise the values are the defaults: g_default_ctcss_tone for
\* the CTCSS values (the receive value in Tone mode, both in mode '') and
\* '023' for both DCS codes in mode ''.
C9_ValuesOrDefaults ==
    call = "parse_tones" =>
        /\ TxType = TONE_TYPE_CTCSS => ret[2] = TxValue
        /\ ret[1] = TONE_SQUELCH_MODE => ret[3] = RxValue
        /\ ret[1] # TONE_SQUELCH_MODE => ret[3] = g_default_ctcss_tone
        /\ ret[1] = DEFAULT_TONE_MODE =>
              /\ ret[2] = g_default_ctcss_tone
              /\ ret[4] = PyStr(DEFAULT_DCS_TONE_CODE)
              /\ ret[5] = PyStr(DEFAULT_DCS_TONE_CODE)

\* Tone mode after -t 100: the receive value is the new default, not 88.5.
C9_Witness ==
    /\ call = "parse_tones"
    /\ g_default_ctcss_tone = PyStr(<<"1", "0", "0", ".", "0">>)
    /\ RxType = TONE_TYPE_CTCSS
    /\ ret[1] = DCS_TONE_MODE
    /\ ret[3] = g_default_ctcss_tone
    /\ ret[3] # RxValue

-----------------------------------------------------------------------------
(* The claims about the frequency columns, checked under SpecC2rt.         *)

\* C10 as stated: with an offset of 0.0 and a duplex of '+', '-' or '',
\* c2rt_tx_frequency returns the direction "Simplex" and the receive
\* frequency as the transmit frequency.
C10_ZeroOffsetIsSimplex ==
    (/\ call = "c2rt_tx_frequency"
     /\ chirp_row.Duplex \in {"+", "-", ""}
     /\ float(chirp_row.Offset) = 0) =>
        /\ ret[2] = "Simplex"
        /\ ret[1] = rt_row.Receive

\* The number of digits after the decimal point of a decimal text.
Decimals(s) == Len(s) - (CHOOSE i \in 1..Len(s) : s[i] = ".")

\* C11: for a non-zero offset m, c2rt_tx_frequency returns receive + m and
\* "Plus" for duplex '+', receive - m and "Minus" for duplex '-', and the
\* receive frequency and "Simplex" for any other duplex; the frequency has 5
\* decimal places.
C11_TransmitIsReceiveShifted ==
    (call = "c2rt_tx_frequency" /\ float(chirp_row.Offset) # 0) =>
        LET m == float(chirp_row.Offset)
            receive == float(rt_row.Receive)
            expected == IF chirp_row.Duplex = "+" THEN receive + m
                        ELSE IF chirp_row.Duplex = "-" THEN receive - m
                        ELSE receive
        IN  /\ Decimals(ret[1]) = 5
            /\ Abs(float(ret[1]) - expected) <= 5
            /\ chirp_row.Duplex = "+" => ret[2] = "Plus"
            /\ chirp_row.Duplex = "-" => ret[2] = "Minus"
            /\ chirp_row.Duplex \notin {"+", "-"} => ret[2] = "Simplex"

\* 147.12 with '+' and 0.6 gives 147.72000 and "Plus"; with '-', 146.52000.
C11_Witness ==
    /\ call = "c2rt_tx_frequency"
    /\ float(chirp_row.Frequency) = 147120000
    /\ float(chirp_row.Offset) = 600000
    /\ chirp_row.Duplex = "+"
    /\ ret = <<<<"1", "4", "7", ".", "7", "2", "0", "0", "0">>, "Plus">>

-----------------------------------------------------------------------------
(* The claims about c2rt_offset, checked under SpecC2rt. *)

EndsWith(s, t) ==
    /\ Len(s) >= Len(t)
    /\ SubSeq(s, Len(s) - Len(t) + 1, Len(s)) = t

DropEnd(s, n) == SubSeq(s, 1, Len(s) - n)

\* C12: c2rt_offset renders an offset of zero as the empty string, an offset
\* strictly between 0 and 1.0 as its whole kilohertz, truncated, followed by
\* " kHz", and an offset of 1.0 or more as the megahertz with two decimals
\* followed by " MHz"; every non-negative offset is one of the three.
C12_OffsetRendered ==
    call = "c2rt_offset" =>
        LET m == float(chirp_row.Offset)
        IN  /\ m >= 0
            /\ m = 0 => ret = <<>>
            /\ (0 < m /\ m < Scale) =>
                    /\ EndsWith(ret, kHz)
                    /\ \E n \in 0..999 :
                        /\ DropEnd(ret, Len(kHz)) = NatToDigits(n)
                        /\ n * 1000 <= m
                        /\ m < (n + 1) * 1000
            /\ m >= Scale =>
                    /\ EndsWith(ret, MHz)
                    /\ IsDecimal(DropEnd(ret, Len(MHz)))
                    /\ Decimals(DropEnd(ret, Len(MHz))) = 2
                    /\ Abs(float(DropEnd(ret, Len(MHz))) - m) <= 5000

\* 0.1245 MHz, which is 124.5 kHz, is rendered "124 kHz".
C12_Witness ==
    /\ call = "c2rt_offset"
    /\ float(chirp_row.Offset) = 124500
    /\ ret = <<"1", "2", "4">> \o kHz

-----------------------------------------------------------------------------
(* The claims about truncate_comments, checked under SpecComments. *)

\* The first n characters of s (none when n is not positive).
First(s, n) == SubSeq(s, 1, SeqMax({0, SeqMin({n, Len(s)})}))

\* C13 as stated: for max_size in 0..60, a comment of at most max_size
\* characters, one of exactly max_size characters included, is returned
\* unchanged.
C13_AtOrUnderUnchanged ==
    (/\ call = "truncate_comments"
     /\ arg_max_size \in 0..60
     /\ Len(chirp_row.Comment) <= arg_max_size) =>
        ret = PyStr(chirp_row.Comment)

\* C14 as stated: for max_size in 0..60, a comment of more than max_size
\* characters is returned as its first max_size - 3 characters followed by
\* "...".
C14_LongerCutWithEllipsis ==
    (/\ call = "truncate_comments"
     /\ arg_max_size \in 0..60
     /\ Len(chirp_row.Comment) > arg_max_size) =>
        ret = PyStr(First(chirp_row.Comment, arg_max_size - 3) \o Ellipsis)

\* C15: truncate_comments raises ValueError and returns nothing when
\* max_size is below 0 or above 60, whatever the comment, and returns a
\* string without raising when max_size is in 0..60.
C15_RaisesExactlyOutsideRange ==
    call = "truncate_comments" =>
        /\ (arg_max_size < 0 \/ arg_max_size > 60) =>
                (raised = "ValueError" /\ ret = PyNone)
        /\ arg_max_size \in 0..60 => (raised = "" /\ IsStr(ret))

\* A max_size of 61 is refused for a comment that would fit.
C15_Witness ==
    /\ call = "truncate_comments"
    /\ arg_max_size = 61
    /\ Len(chirp_row.Comment) = 10
    /\ raised = "ValueError"

\* C27 as stated: for max_size in 0..60 and any comment, the empty one
\* included, the string truncate_comments returns has at most max_size
\* characters.
C27_NeverLongerThanMaxSize ==
    (call = "truncate_comments" /\ arg_max_size \in 0..60) =>
        /\ IsStr(ret)
        /\ Len(ret.chars) <= arg_max_size

-----------------------------------------------------------------------------
(* The claims about convert, checked under SpecConvert. *)

\* The position of a column in a line.
Column(fieldnames, name) == CHOOSE j \in 1..Len(fieldnames) : fieldnames[j] = name

\* C16: convert writes the header first and then one RT Systems row for each
\* row of the CHIRP file, in the order of the file, and export_RT returns the
\* number of rows plus one.
C16_HeaderThenRowsInOrder ==
    call = "export_RT" =>
        /\ output_file[1] = RT_headers
        /\ Len(output_file) = Len(input_file)
        /\ \A i \in 2..Len(input_file) :
            /\ output_file[i] = LineOf(RT_headers, rt_row_of(DictOf(CHIRP_headers, input_file[i])))
            /\ output_file[i][Column(RT_headers, "Name")]
                    = input_file[i][Column(CHIRP_headers, "Name")]
            /\ int(output_file[i][Column(RT_headers, "Channel Number")])
                    = int(input_file[i][Column(CHIRP_headers, "Location")])
        /\ ret = (Len(input_file) - 1) + 1

\* A file of the three kinds of channel, at locations 3, 1, 2.
C16_Witness ==
    /\ call = "export_RT"
    /\ Len(input_file) = 4
    /\ [i \in 1..3 |-> input_file[i + 1][Column(CHIRP_headers, "Name")]]
            = <<"TSQL", "SIMPLEX", "DTCS">>
    /\ [i \in 1..3 |-> output_file[i + 1][Column(RT_headers, "Channel Number")]]
            = <<<<"3">>, <<"1">>, <<"2">>>>
    /\ ret = 4

\* C17 as stated: the channel number of each row chirp2rt returns is one more
\* than that of the row before it, whatever the Locations of the CHIRP rows.
C17_ChannelNumbersSequential ==
    call = "chirp2rt" =>
        \A i \in 2..Len(RT_content) :
            int(RT_content[i]["Channel Number"])
                = int(RT_content[i - 1]["Channel Number"]) + 1

\* C25 as stated: a CHIRP row whose Tone is 'DTCS' gets the Tone Mode 'DCS'
\* and its DtcsCode in the DCS column; a row of any other Tone gets an empty
\* DCS column.
C25_DcsColumnIsDtcsCode ==
    call = "chirp2rt" =>
        \A i \in 1..Len(raw_chirp_content) :
            IF raw_chirp_content[i]["Tone"] = "DTCS"
            THEN /\ RT_content[i]["Tone Mode"] = "DCS"
                 /\ RT_content[i]["DCS"] = raw_chirp_content[i]["DtcsCode"]
            ELSE RT_content[i]["DCS"] = ""

-----------------------------------------------------------------------------
(* The claims about ics_parse, checked under SpecIcs. *)

\* A line with at least 10 columns and a name that is not blank.
IsChannelLine(line) ==
    /\ Len(split(line)) >= 10
    /\ strip(split(line)[2]) # <<>>

ChannelLines == SelectSeq(raw_input_lines, IsChannelLine)

\* C18 as stated: a numeric column that is not a number never aborts
\* ics_parse; the row of a channel line is emitted, with the frequency
\* "147.120000" when its frequency column is not a number.
C18_MalformedNumericRecovered ==
    call = "ics_parse" =>
        /\ raised = ""
        /\ Len(ret) = Len(ChannelLines)
        /\ \A i \in 1..Len(ChannelLines) :
                ~IsDecimal(strip(split(ChannelLines[i])[3])) =>
                    ret[i][3] = PyStr(format_frequency(DEFAULT_FREQUENCY))

\* C19 as stated: the rows ics_parse returns are those of the lines with at
\* least 10 columns and a name that is not blank, in the order of the input;
\* the other lines give no row and do not stop the lines after them.
C19_EmitsExactlyChannelLines ==
    call = "ics_parse" =>
        /\ raised = ""
        /\ [i \in 1..Len(ret) |-> <<ret[i][1], ret[i][2]>>]
            = [i \in 1..Len(ChannelLines) |->
                <<PyStr(strip(split(ChannelLines[i])[1])),
                  PyStr(split(ChannelLines[i])[2])>>]

\* The offset column of the i-th channel line.
OffsetColumn(i) == split(ChannelLines[i])[5]

\* C26 as stated: in every row ics_parse returns, Duplex is '' exactly when
\* Offset is 0.000000; a blank offset column gives ('', 0.000000), a positive
\* one '+', a negative one '-', each with the magnitude as Offset, and an
\* offset column of value zero gives ('', 0.000000).
C26_DuplexEmptyIffOffsetZero ==
    (call = "ics_parse" /\ raised = "") =>
        \A i \in 1..Len(ret) :
            /\ ret[i][4] = "" <=> ret[i][5] = PyStr(format_frequency(0))
            /\ strip(OffsetColumn(i)) = <<>> =>
                    (ret[i][4] = "" /\ ret[i][5] = PyStr(format_frequency(0)))
            /\ strip(OffsetColumn(i)) # <<>> =>
                    /\ ret[i][5] = PyStr(format_frequency(Abs(float(OffsetColumn(i)))))
                    /\ float(OffsetColumn(i)) > 0 => ret[i][4] = "+"
                    /\ float(OffsetColumn(i)) < 0 => ret[i][4] = "-"
                    /\ float(OffsetColumn(i)) = 0 => ret[i][4] = ""

-----------------------------------------------------------------------------
(* The claims about process_options, checked under SpecOptions. *)

\* The positions, among the options handled so far, of the -f options.
SkipOptionsHandled ==
    {i \in 1..handled : opts[i][1] \in {"-f", "--skip-first-rows"}}

\* The value of a -f option is an integer of 0..9.
IsSkipCount(a) == IsInteger(a) /\ int(a) \in 0..9

\* C20 as stated: in both scripts, after any sequence of -f options,
\* g_skip_rows is within 0..9, and it is the default 0 when the value of the
\* last -f was not an integer or was outside 0..9.
C20_SkipRowsInRangeOrDefault ==
    /\ g_skip_rows \in 0..9
    /\ (/\ SkipOptionsHandled # {}
        /\ ~IsSkipCount(opts[SeqMax(SkipOptionsHandled)][2])) =>
            g_skip_rows = 0

-----------------------------------------------------------------------------
(* The claims about load_version_channel_name, checked under SpecVersion.  *)

IsTokenFileContent(line) == ~blank_line_re(line) /\ ~comment_line_re(line)

\* The lines of the token file that are neither blank nor comments.
RemainingLines == SelectSeq(version_file.lines, IsTokenFileContent)

\* C22 as stated: load_version_channel_name either sets g_control_channel to
\* "," + token + CARES_CONTROL_CHANNEL_END, for the first line that is
\* neither blank nor a comment when that line is 1 to 6 word characters, or
\* ends the process with the exit code 11; it never returns leaving
\* g_control_channel None.
C22_TokenSetOrExit11 ==
    call = "load_version_channel_name" =>
        IF RemainingLines # <<>> /\ version_token_re(RemainingLines[1])
        THEN /\ exit_code = <<>>
             /\ g_control_channel
                    = PyStr(<<",">> \o strip(RemainingLines[1])
                             \o CARES_CONTROL_CHANNEL_END)
        ELSE /\ exit_code = <<11>>
             /\ g_control_channel = PyNone

-----------------------------------------------------------------------------
(* The claims about __main__, checked under SpecMain. *)

\* C21 as stated: in i2c.py and in website_table_gen.py, with a number of
\* file names other than two the run goes from the options to its end,
\* opens no file, reads and writes nothing, and its exit status is not 0.
C21_WrongFileCountAborts ==
    Len(args) # 2 =>
        /\ pc \in {"process_options", "exit"}
        /\ opened = <<>>
        /\ raw_input_lines = <<>> /\ raw_rows = <<>> /\ output_file = <<>>
        /\ pc = "exit" => (exit_code # <<>> /\ exit_code # <<0>>)

\* One of the options is -h or --help.
HelpAsked == \E i \in 1..Len(opts) : opts[i][1] \in {"-h", "--help"}

\* C24 as stated: website_table_gen.py with -h or --help among its options,
\* whatever the other options and the file names, prints the help message
\* and ends, without opening the input file or the output file.
C24_HelpPrintsAndQuits ==
    (script = "website_table_gen.py" /\ HelpAsked) =>
        /\ pc \in {"process_options", "exit"}
        /\ opened = <<>>
        /\ raw_rows = <<>> /\ output_file = <<>>
        /\ pc = "exit" => stdout = wtg_usage

-----------------------------------------------------------------------------
(* The claims about generate_output of i2c.py, checked under SpecMain. *)

\* The number of sentinel rows before the channel rows.
HeadRows == IF use_control_channel THEN 1 ELSE 0

\* The Location of a line written.
LocationOf(line) == split(line)[1]

\* C23 as stated: generate_output writes the header line, then, only when
\* use_control_channel is true, a sentinel row of Location 0, then the line of
\* every channel row in the order of the list, then, only when
\* use_control_channel is true, a sentinel row whose Location is that of the
\* last channel row plus one, and nothing else.
C23_HeaderSentinelsAroundRows ==
    (script = "i2c.py" /\ call = "generate_output") =>
        /\ Len(output_file) = 1 + HeadRows + Len(cooked) + HeadRows
        /\ output_file[1] = CHIRP_CSV_HEADER_FIELDS \o <<"\n">>
        /\ use_control_channel => LocationOf(output_file[2]) = <<"0">>
        /\ \A i \in 1..Len(cooked) :
                output_file[1 + HeadRows + i] = row_line(cooked[i])
        /\ use_control_channel =>
                /\ IsInteger(last_row_of(cooked))
                /\ LocationOf(output_file[Len(output_file)])
                        = IntToChars(int(last_row_of(cooked)) + 1)

\* C28 as stated: every line generate_output of i2c.py writes after the
\* header, channel row or sentinel row, has as many comma-separated fields as
\* the header, 17.
C28_SeventeenFieldsPerLine ==
    (script = "i2c.py" /\ call = "generate_output") =>
        /\ Len(split(output_file[1])) = 17
        /\ \A i \in 2..Len(output_file) :
                Len(split(output_file[i])) = Len(split(output_file[1]))

====
